---- MODULE Spec2Model ----
(***************************************************************************)
(* A model of the agent control loop, AgentRunner.executeStep, of          *)
(* src/agent/runner.ts together with the collaborators it awaits:          *)
(* collectObservation, the LLM provider's generateAction, parseAction,     *)
(* executeAction and evaluateAllExpectations.                              *)
(*                                                                         *)
(* One run of the specification is one call of executeStep.  Every await   *)
(* of the handler is one action; the outcomes of the page and of the model *)
(* backend are chosen nondeterministically among the ones the code can     *)
(* observe (a value, a rejected promise, a request that hangs until the    *)
(* abort timer fires).                                                     *)
(*                                                                         *)
(* The page is abstracted to the set of facts that currently hold on it.   *)
(* The i-th declared expectation of the step checks fact i; an assert      *)
(* action names any fact.                                                  *)
(*                                                                         *)
(* More specifications follow parts of the program the tick loop only      *)
(* passes through, each over its own variables while the others rest:      *)
(* EvalSpec, one call of evaluateAllExpectations; MaskSpec, the goal text  *)
(* of a step from the test file to the logs and the prompt; ScoreSpec, a   *)
(* caller of selectBestSelector of recorder/selectors.ts; GenSpec, one run *)
(* of the recording generator, generate() of recorder/generate.ts;         *)
(* ReviewSpec, one run of the override reviewer, reviewRecording of        *)
(* recorder/review.ts; HeuristicSpec, one call of its fallback heuristic;  *)
(* HarnessSpec, the body of the test of one test case; ObsSpec, one call   *)
(* of collectObservation.                                                  *)
(***************************************************************************)
EXTENDS Integers, Sequences, FiniteSets, TLC

\* Bounds of the model.
MaxTicksBound == 2
MaxExp == 2

\* RunnerConfig: the observation keeps this many prior actions.
HistoryWindow == 5

Facts == 1..MaxExp

MutatingTypes == {"click", "fill", "press", "select", "check", "wait", "goto"}

\* The shapes a raw model response can have, as parseAction tells them apart:
\* text without any {...}, a {...} that is not JSON, JSON that fails the zod
\* schema, and a well-formed response holding exactly one action.
Actions ==
    [type : MutatingTypes \cup {"fail"}, fact : {0}] \cup [type : {"assert"}, fact : Facts]
NoAction == [type |-> "none", fact |-> 0]
MalformedShapes == {"no_json", "bad_json", "bad_schema"}
MalformedResponses == [shape : MalformedShapes, action : {NoAction}]
Responses == MalformedResponses \cup [shape : {"ok"}, action : Actions]
EmptyResponse == [shape |-> "empty", action |-> NoAction]
Null == "null"
Undefined == "undefined"
NoObservation == [tickNumber |-> 0]
NoDebugInfo == [present |-> FALSE]
NoResult == [kind |-> "none"]

VARIABLES
    maxTicksPerStep,   \* this.config.maxTicksPerStep
    nExp,              \* step.expect.length; expectation i checks fact i
    page,              \* the facts that hold on the live page
    pc,                \* the await executeStep is at
    tick,              \* the number of the tick last started (0: none yet)
    actions,           \* the action log
    lastError,
    lastObservation,
    lastLLMResponse,
    action,            \* the parsed action of the current tick
    result,            \* the StepResult executeStep resolved with
    llmCalls,          \* history: calls of llm.generateAction
    execCalls,         \* history: calls of executeAction
    pageOps,           \* history: mutating page operations issued
    stepChecks,        \* history: expectation checks of the step inside the loop
    checkPassed,       \* history: allPassed of the latest check inside the loop
    malformedTicks,    \* history: ticks whose model response was malformed
    exit,              \* history: the statement that ended executeStep
    \* one call of evaluateAllExpectations
    evalPc,            \* where the call is: "idle", "loop", "every", "returned"
    evalExpectations,  \* the `expectations` argument: the facts to check, in order
    evalResults,       \* the `results` array
    evalAllPassed,     \* the `allPassed` of the value returned
    evalRaised,        \* history: the positions whose evaluation raised an error
    \* the goal text of one step, from the test file to the log and the prompt
    maskPc,            \* where the step is: "idle", "harness", "entry", "log", ...
    stepGoal,          \* step.goal as the test case declares it
    variables,         \* this.variables of the runner
    env,               \* process.env
    goal,              \* executeStep: const goal
    harnessLog,        \* the goal the test harness logged before the step
    loggedGoal,        \* the goal executeStep logged with 'Starting step'
    promptGoal,        \* the GOAL line of the user prompt
    filledText,        \* the text executeAction typed for a fill action
    \* one run of generate()
    genPc,             \* where the run is: "idle", "discover", "loop", "returned", ...
    STRICT_SELECTORS,  \* RECORDINGS_STRICT_SELECTORS === '1' || !!CI
    recordingFiles,    \* the recording files found, sorted
    filesDone,         \* the number of files the loop is through with
    recording,         \* what the file read last holds
    specLines,         \* the blocks of the script written last
    outputDir,         \* the scripts that exist in tests/recordings
    filesWritten,
    brittleSelectors,
    invalidRecordings,
    printed,           \* the brittle selector lines sent to the console
    genResult,         \* how generate() ended
    \* a caller of selectBestSelector
    scoreInput,        \* the list of alternatives the caller holds and passes
    sortedCandidates,  \* the candidates array of the last call, after the sort
    scoreCalls,        \* the calls made so far: the list passed and the value returned
    \* one run of reviewRecording
    reviewPc,
    dryRun,            \* options.dryRun
    reviewSteps,       \* type and selectors of every step of the recording
    errorContext,      \* the step marker and role mentions of the failure text
    overridesFile,     \* recordings/overrides/<name>.yaml on disk
    existingOverrides, \* the file as loaded at the start of the run
    proposed,          \* the proposal accepted, from the model or the heuristic
    mergedFile,        \* the merged override set, once it passed the schema
    schemaChecked,     \* OverridesFileSchema.parse accepted the merged set
    validations,       \* the calls of validateOverridesAgainstRecording
    reviewOut,         \* the YAML printed by a dry run
    reviewAnswer,      \* what the model call came back with
    reviewRaised,      \* the error reviewRecording ended with
    \* the body of the test of one test case
    harnessPc,
    testSteps,         \* testCase.steps.length
    runnerPage,        \* the page the AgentRunner was built with
    loopIndex,         \* i of the loop over the steps
    stepResults,
    started,           \* history: the calls of executeStep, step and page
    attached,          \* the attachments of the test
    testStatus,        \* running, passed, failed, or threw
    \* one call of collectObservation
    obsPc,
    obsConfig,
    obsLog,            \* the action log passed in
    obsTick,           \* the tick passed in
    ariaSnapshot,
    shortText,
    observation        \* the value returned

agentVars == <<maxTicksPerStep, nExp, page, pc, tick, actions, lastError, lastObservation,
               lastLLMResponse, action, result, llmCalls, execCalls, pageOps, stepChecks,
               checkPassed, malformedTicks, exit>>
evalVars == <<evalPc, evalExpectations, evalResults, evalAllPassed, evalRaised>>
maskVars == <<maskPc, stepGoal, variables, env, goal, harnessLog, loggedGoal, promptGoal,
              filledText>>
genVars == <<genPc, STRICT_SELECTORS, recordingFiles, filesDone, recording, specLines,
             outputDir, filesWritten, brittleSelectors, invalidRecordings, printed,
             genResult>>

scoreVars == <<scoreInput, sortedCandidates, scoreCalls>>
reviewVars == <<reviewPc, dryRun, reviewSteps, errorContext, overridesFile,
                existingOverrides, proposed, mergedFile, schemaChecked, validations,
                reviewOut, reviewAnswer, reviewRaised>>
harnessVars == <<harnessPc, testSteps, runnerPage, loopIndex, stepResults, started,
                 attached, testStatus>>
obsVars == <<obsPc, obsConfig, obsLog, obsTick, ariaSnapshot, shortText, observation>>
restVars == <<scoreVars, reviewVars, harnessVars, obsVars>>

\* What the tick loop of executeStep leaves alone.
otherVars == <<evalVars, maskVars, genVars, restVars>>

vars == <<agentVars, evalVars, maskVars, genVars, restVars>>

Expectations == 1..nExp

----------------------------------------------------------------------------
\* Helpers

LastN(s, n) == IF Len(s) <= n THEN s ELSE SubSeq(s, Len(s) - n + 1, Len(s))

\* Mutant: the extracted JSON is returned without the schema validation, and
\* whatever it holds is run as an action.
parseAction_NoSchema(resp) ==
    IF resp.shape = "no_json"
    THEN [ok |-> FALSE, action |-> NoAction, error |-> "Parse error: no JSON object"]
    ELSE IF resp.shape = "bad_json"
    THEN [ok |-> FALSE, action |-> NoAction, error |-> "Parse error: invalid JSON"]
    ELSE IF resp.shape = "bad_schema"
    THEN [ok |-> TRUE, action |-> [type |-> "wait", fact |-> 0], error |-> Null]
    ELSE [ok |-> TRUE, action |-> resp.action, error |-> Null]

\* parseAction: regex extraction, JSON.parse, schema validation; any failure throws.
parseAction(resp) ==
    IF resp.shape = "no_json"
    THEN [ok |-> FALSE, action |-> NoAction, error |-> "Parse error: no JSON object"]
    ELSE IF resp.shape = "bad_json"
    THEN [ok |-> FALSE, action |-> NoAction, error |-> "Parse error: invalid JSON"]
    ELSE IF resp.shape = "bad_schema"
    THEN [ok |-> FALSE, action |-> NoAction, error |-> "Parse error: schema"]
    ELSE [ok |-> TRUE, action |-> resp.action, error |-> Null]

\* evaluateExpectation on fact f: passes iff the fact holds and the evaluation
\* raised nothing; an error raised while evaluating is caught and fails the result.
evaluateExpectation(f, raised) ==
    LET passed == f \in page /\ f \notin raised
    IN [expectation |-> f, passed |-> passed,
        error |-> IF passed THEN Undefined
                  ELSE IF f \in raised THEN "Evaluation error" ELSE "not met"]

\* Mutant: `some` in place of `every`.
AllPassed_Some(results) == \E i \in 1..Len(results) : results[i].passed

AllPassed(results) == \A i \in 1..Len(results) : results[i].passed

\* evaluateAllExpectations over the facts fs (a sequence), without short-circuit.
evaluateAllExpectations(fs, raised) ==
    LET results == [i \in 1..Len(fs) |-> evaluateExpectation(fs[i], raised)]
    IN [allPassed |-> AllPassed(results), results |-> results]

StepExpectations == [i \in 1..nExp |-> i]

DebugInfo ==
    [present |-> TRUE,
     lastObservation |-> lastObservation,
     lastLLMResponse |-> lastLLMResponse,
     lastError |-> lastError]

\* Mutant: the loop bound off by one.
LoopContinues_OffByOne == tick <= maxTicksPerStep

\* for (let tick = 1; tick <= maxTicksPerStep; tick++): may tick + 1 start?
LoopContinues == tick + 1 <= maxTicksPerStep

\* `continue`, or the end of the loop body: the next tick, or the code after the loop.
NextTick ==
    /\ action' = NoAction
    /\ IF LoopContinues
       THEN tick' = tick + 1 /\ pc' = "observe"
       ELSE tick' = tick /\ pc' = "final_eval"

----------------------------------------------------------------------------
\* No call of evaluateAllExpectations is being followed on its own.
EvalIdle ==
    /\ evalPc = "idle"
    /\ evalExpectations = <<>>
    /\ evalResults = <<>>
    /\ evalAllPassed = FALSE
    /\ evalRaised = {}

\* No goal text is being followed.
MaskIdle ==
    /\ maskPc = "idle"
    /\ stepGoal = <<>>
    /\ variables = <<>>
    /\ env = <<>>
    /\ goal = <<>>
    /\ harnessLog = <<>>
    /\ loggedGoal = <<>>
    /\ promptGoal = <<>>
    /\ filledText = <<>>

\* What a recording file can hold, and the value before any file is read.
Content(kind, title, steps, overrides, assertions) ==
    [kind |-> kind, title |-> title, steps |-> steps, overrides |-> overrides,
     assertions |-> assertions]
NoContent == Content("none", <<>>, <<>>, <<>>, <<>>)

NoGenResult == [kind |-> "none"]

\* generate() is not running.
GenIdle ==
    /\ genPc = "idle"
    /\ STRICT_SELECTORS = FALSE
    /\ recordingFiles = <<>>
    /\ filesDone = 0
    /\ recording = NoContent
    /\ specLines = <<>>
    /\ outputDir = {}
    /\ filesWritten = <<>>
    /\ brittleSelectors = <<>>
    /\ invalidRecordings = <<>>
    /\ printed = <<>>
    /\ genResult = NoGenResult

\* selectBestSelector has no caller.
ScoreIdle ==
    /\ scoreInput = <<>>
    /\ sortedCandidates = <<>>
    /\ scoreCalls = <<>>

\* An overrides file: whether it exists, and its entries.
File(exists, entries) == [exists |-> exists, overrides |-> entries]
NoFile == File(FALSE, <<>>)

\* No marker 'step N: type' in the failure context and no step it points to.
NoStep == -1
NoMarker == [step |-> NoStep, type |-> ""]
NoContext == [marker |-> NoMarker, mentions |-> <<>>]

\* reviewRecording is not running.
ReviewIdle ==
    /\ reviewPc = "idle"
    /\ dryRun = FALSE
    /\ reviewSteps = <<>>
    /\ errorContext = NoContext
    /\ overridesFile = NoFile
    /\ existingOverrides = NoFile
    /\ proposed = <<>>
    /\ mergedFile = <<>>
    /\ schemaChecked = FALSE
    /\ validations = <<>>
    /\ reviewOut = <<>>
    /\ reviewAnswer = [kind |-> "none", overrides |-> <<>>]
    /\ reviewRaised = "none"

\* The test harness is not running.
HarnessIdle ==
    /\ harnessPc = "idle"
    /\ testSteps = 0
    /\ runnerPage = "page"
    /\ loopIndex = 0
    /\ stepResults = <<>>
    /\ started = <<>>
    /\ attached = <<>>
    /\ testStatus = "idle"

\* collectObservation is not running.
ObsIdle ==
    /\ obsPc = "idle"
    /\ obsConfig = [ariaSnapshotMaxChars |-> 0, shortTextMaxChars |-> 0,
                    goalKeywords |-> FALSE]
    /\ obsLog = <<>>
    /\ obsTick = 0
    /\ ariaSnapshot = [source |-> "none", len |-> 0]
    /\ shortText = [source |-> "none", len |-> 0]
    /\ observation = [kind |-> "none"]

RestIdle == ScoreIdle /\ ReviewIdle /\ HarnessIdle /\ ObsIdle

Init ==
    /\ maxTicksPerStep \in 0..MaxTicksBound
    /\ nExp \in 0..MaxExp
    /\ page \in SUBSET Facts
    /\ pc = "start"
    /\ tick = 0
    /\ actions = <<>>
    /\ lastError = Null
    /\ lastObservation = NoObservation
    /\ lastLLMResponse = EmptyResponse
    /\ action = NoAction
    /\ result = NoResult
    /\ llmCalls = 0
    /\ execCalls = 0
    /\ pageOps = 0
    /\ stepChecks = 0
    /\ checkPassed = FALSE
    /\ malformedTicks = 0
    /\ exit = "none"
    /\ EvalIdle
    /\ MaskIdle
    /\ GenIdle
    /\ RestIdle

\* Entry of executeStep up to the loop header.
StartStep ==
    /\ UNCHANGED otherVars
    /\ pc = "start"
    /\ NextTick
    /\ UNCHANGED <<maxTicksPerStep, nExp, page, actions, lastError, lastObservation,
                   lastLLMResponse, result, llmCalls, execCalls, pageOps, stepChecks,
                   checkPassed, malformedTicks, exit>>

\* collectObservation: page.title() is awaited outside any try, so its
\* rejection leaves executeStep; a failing aria snapshot or text excerpt only
\* degrades to an error string inside the observation text, which the loop
\* never reads and which is left abstract here.
CollectObservation ==
    /\ UNCHANGED otherVars
    /\ pc = "observe"
    /\ \/ /\ lastObservation' =
                [tickNumber |-> tick, lastError |-> lastError,
                 previousActions |-> LastN(actions, HistoryWindow)]
          /\ pc' = "model_call"
          /\ UNCHANGED exit
       \/ /\ pc' = "threw"
          /\ exit' = "exception"
          /\ UNCHANGED lastObservation
    /\ UNCHANGED <<maxTicksPerStep, nExp, page, tick, actions, lastError,
                   lastLLMResponse, action, result, llmCalls, execCalls, pageOps,
                   stepChecks,
                   checkPassed, malformedTicks>>

\* The catch block of the model call: record the error, `continue`.
LLMCallFailed(error) ==
    /\ lastError' = error
    /\ NextTick
    /\ UNCHANGED lastLLMResponse

\* llm.generateAction, as ChutesProvider.chatCompletion settles it: a response
\* body, a failure (network error, non-2xx status, unreadable body), or a
\* request that stays pending until the abort timer fires.
CallLLM ==
    /\ UNCHANGED otherVars
    /\ pc = "model_call"
    /\ llmCalls' = llmCalls + 1
    /\ \/ \E r \in Responses :
             /\ lastLLMResponse' = r
             /\ malformedTicks' = malformedTicks + (IF r \in MalformedResponses THEN 1 ELSE 0)
             /\ pc' = "parse"
             /\ UNCHANGED <<lastError, tick, action>>
       \/ LLMCallFailed("LLM error") /\ UNCHANGED malformedTicks
       \/ /\ pc' = "llm_pending"
          /\ UNCHANGED <<lastLLMResponse, lastError, tick, action, malformedTicks>>
    /\ UNCHANGED <<maxTicksPerStep, nExp, page, actions, lastObservation, result,
                   execCalls, pageOps, stepChecks,
                   checkPassed, exit>>

\* setTimeout(() => controller.abort(), timeoutMs): the pending fetch rejects
\* with AbortError, rethrown as "request timed out", caught by executeStep.
LLMTimeout ==
    /\ UNCHANGED otherVars
    /\ pc = "llm_pending"
    /\ LLMCallFailed("LLM error: timed out")
    /\ UNCHANGED <<maxTicksPerStep, nExp, page, actions, lastObservation, result,
                   llmCalls, execCalls, pageOps, stepChecks,
                   checkPassed, malformedTicks, exit>>

\* Mutant: a parse failure asks the model again within the same tick.
ParseResponse_Retry ==
    /\ UNCHANGED otherVars
    /\ pc = "parse"
    /\ LET parsed == parseAction(lastLLMResponse)
       IN IF parsed.ok
          THEN /\ action' = parsed.action
               /\ pc' = "dispatch"
               /\ UNCHANGED <<tick, lastError>>
          ELSE /\ lastError' = parsed.error
               /\ pc' = "model_call"
               /\ UNCHANGED <<tick, action>>
    /\ UNCHANGED <<maxTicksPerStep, nExp, page, actions, lastObservation,
                   lastLLMResponse, result, llmCalls, execCalls, pageOps, stepChecks,
                   checkPassed, malformedTicks, exit>>

\* The try/catch around parseAction.
ParseResponse ==
    /\ UNCHANGED otherVars
    /\ pc = "parse"
    /\ LET parsed == parseAction(lastLLMResponse)
       IN IF parsed.ok
          THEN /\ action' = parsed.action
               /\ pc' = "dispatch"
               /\ UNCHANGED <<tick, lastError>>
          ELSE /\ lastError' = parsed.error
               /\ NextTick
    /\ UNCHANGED <<maxTicksPerStep, nExp, page, actions, lastObservation,
                   lastLLMResponse, result, llmCalls, execCalls, pageOps, stepChecks,
                   checkPassed, malformedTicks, exit>>

\* Mutant: the fail action is pushed to the action log before returning.
HandleFail_Logged ==
    /\ UNCHANGED otherVars
    /\ pc = "dispatch"
    /\ action.type = "fail"
    /\ actions' = Append(actions, [action |-> action, success |-> FALSE,
                                   error |-> "Agent gave up"])
    /\ result' = [kind |-> "result", success |-> FALSE, ticksUsed |-> tick,
                  actions |-> actions', expectations |-> <<>>,
                  error |-> "Agent gave up", debugInfo |-> DebugInfo]
    /\ pc' = "returned"
    /\ exit' = "fail"
    /\ UNCHANGED <<maxTicksPerStep, nExp, page, tick, lastError,
                   lastObservation, lastLLMResponse, action, llmCalls, execCalls,
                   pageOps, stepChecks, checkPassed, malformedTicks>>

\* if (action.type === 'fail') return {...}
HandleFail ==
    /\ UNCHANGED otherVars
    /\ pc = "dispatch"
    /\ action.type = "fail"
    /\ result' = [kind |-> "result", success |-> FALSE, ticksUsed |-> tick,
                  actions |-> actions, expectations |-> <<>>,
                  error |-> "Agent gave up", debugInfo |-> DebugInfo]
    /\ pc' = "returned"
    /\ exit' = "fail"
    /\ UNCHANGED <<maxTicksPerStep, nExp, page, tick, actions, lastError,
                   lastObservation, lastLLMResponse, action, llmCalls, execCalls,
                   pageOps, stepChecks,
                   checkPassed, malformedTicks>>

\* Mutant: the `continue` is missing, so the tick goes on to the delay and
\* the step's own check.
HandleAssert_FallsThrough ==
    /\ UNCHANGED otherVars
    /\ pc = "dispatch"
    /\ action.type = "assert"
    /\ \E raised \in SUBSET {action.fact} :
          LET ev == evaluateAllExpectations(<<action.fact>>, raised)
              passed == ev.results[1].passed
          IN /\ actions' = Append(actions,
                    [action |-> action, success |-> passed,
                     error |-> IF passed THEN Undefined ELSE ev.results[1].error])
             /\ lastError' = IF passed THEN Null ELSE ev.results[1].error
    /\ pc' = "delay"
    /\ UNCHANGED <<maxTicksPerStep, nExp, page, tick, action, lastObservation,
                   lastLLMResponse, result, llmCalls, execCalls, pageOps, stepChecks,
                   checkPassed, malformedTicks, exit>>

\* if (action.type === 'assert') {...; continue}
HandleAssert ==
    /\ UNCHANGED otherVars
    /\ pc = "dispatch"
    /\ action.type = "assert"
    /\ \E raised \in SUBSET {action.fact} :
          LET ev == evaluateAllExpectations(<<action.fact>>, raised)
              passed == ev.results[1].passed
          IN /\ actions' = Append(actions,
                    [action |-> action, success |-> passed,
                     error |-> IF passed THEN Undefined ELSE ev.results[1].error])
             /\ lastError' = IF passed THEN Null ELSE ev.results[1].error
    /\ NextTick
    /\ UNCHANGED <<maxTicksPerStep, nExp, page, lastObservation, lastLLMResponse,
                   result, llmCalls, execCalls, pageOps, stepChecks,
                   checkPassed, malformedTicks, exit>>

\* Mutant: the catch of executeAction reports the failure without its message.
executeAction_NoError(a, found, ok) ==
    IF a.type \in {"click", "fill"} /\ ~found
    THEN [action |-> a, success |-> FALSE, error |-> "Locator not found"]
    ELSE IF ok
         THEN [action |-> a, success |-> TRUE, error |-> Undefined]
         ELSE [action |-> a, success |-> FALSE, error |-> Undefined]

\* What executeAction resolves with: `found` is checkLocator's exists (asked
\* for click and fill only), `ok` whether the page operation returned.
executeAction(a, found, ok) ==
    IF a.type \in {"click", "fill"} /\ ~found
    THEN [action |-> a, success |-> FALSE, error |-> "Locator not found"]
    ELSE IF ok
         THEN [action |-> a, success |-> TRUE, error |-> Undefined]
         ELSE [action |-> a, success |-> FALSE, error |-> "Action failed"]

\* Does executeAction issue a page operation?
IssuesPageOp(a, found) == a.type \in {"click", "fill"} => found

\* const result = await this.executeAction(action); actions.push(result);
\* lastError = result.error ?? null
ExecutePageAction ==
    /\ UNCHANGED otherVars
    /\ pc = "dispatch"
    /\ action.type \in MutatingTypes
    /\ \E found \in BOOLEAN, ok \in BOOLEAN, after \in SUBSET Facts :
          LET r == executeAction(action, found, ok)
          IN /\ IF IssuesPageOp(action, found)
                THEN page' = after /\ pageOps' = pageOps + 1
                ELSE UNCHANGED <<page, pageOps>>
             /\ actions' = Append(actions, r)
             /\ lastError' = IF r.error = Undefined THEN Null ELSE r.error
    /\ execCalls' = execCalls + 1
    /\ pc' = "delay"
    /\ UNCHANGED <<maxTicksPerStep, nExp, tick, lastObservation, lastLLMResponse,
                   action, result, llmCalls, stepChecks,
                   checkPassed, malformedTicks, exit>>

\* await this.page.waitForTimeout(postActionDelayMs), awaited outside any try.
PostActionDelay ==
    /\ UNCHANGED otherVars
    /\ pc = "delay"
    /\ \/ /\ pc' = IF action.type \in {"click", "goto"} THEN "load_wait" ELSE "check"
          /\ UNCHANGED exit
       \/ /\ pc' = "threw"
          /\ exit' = "exception"
    /\ UNCHANGED <<maxTicksPerStep, nExp, page, tick, actions, lastError,
                   lastObservation, lastLLMResponse, action, result, llmCalls,
                   execCalls, pageOps, stepChecks,
                   checkPassed, malformedTicks>>

\* try { await page.waitForLoadState(...) } catch {}: both outcomes go on.
WaitForLoadState ==
    /\ UNCHANGED otherVars
    /\ pc = "load_wait"
    /\ pc' = "check"
    /\ UNCHANGED <<maxTicksPerStep, nExp, page, tick, actions, lastError,
                   lastObservation, lastLLMResponse, action, result, llmCalls,
                   execCalls, pageOps, stepChecks,
                   checkPassed, malformedTicks, exit>>

\* Mutant: the check runs on a step without expectations too, where it
\* passes on an empty list.
CheckExpectations_AlwaysEvaluates ==
    /\ UNCHANGED otherVars
    /\ pc = "check"
    /\ \E raised \in SUBSET Expectations :
          LET ev == evaluateAllExpectations(StepExpectations, raised)
          IN /\ stepChecks' = stepChecks + 1
             /\ checkPassed' = ev.allPassed
             /\ IF ev.allPassed
                THEN /\ result' = [kind |-> "result", success |-> TRUE,
                                   ticksUsed |-> tick, actions |-> actions,
                                   expectations |-> ev.results,
                                   error |-> Undefined, debugInfo |-> NoDebugInfo]
                     /\ pc' = "returned"
                     /\ exit' = "success"
                     /\ UNCHANGED <<tick, action>>
                ELSE NextTick /\ UNCHANGED <<result, exit>>
    /\ UNCHANGED <<maxTicksPerStep, nExp, page, actions, lastError, lastObservation,
                   lastLLMResponse, llmCalls, execCalls, pageOps,
                   malformedTicks>>

\* if (expectations.length > 0) { evaluate; if (allPassed) return {...} }
CheckExpectations ==
    /\ UNCHANGED otherVars
    /\ pc = "check"
    /\ IF nExp > 0
       THEN \E raised \in SUBSET Expectations :
               LET ev == evaluateAllExpectations(StepExpectations, raised)
               IN /\ stepChecks' = stepChecks + 1
                  /\ checkPassed' = ev.allPassed
                  /\ IF ev.allPassed
                     THEN /\ result' = [kind |-> "result", success |-> TRUE,
                                        ticksUsed |-> tick, actions |-> actions,
                                        expectations |-> ev.results,
                                        error |-> Undefined, debugInfo |-> NoDebugInfo]
                          /\ pc' = "returned"
                          /\ exit' = "success"
                          /\ UNCHANGED <<tick, action>>
                     ELSE NextTick /\ UNCHANGED <<result, exit>>
       ELSE NextTick /\ UNCHANGED <<result, stepChecks, checkPassed, exit>>
    /\ UNCHANGED <<maxTicksPerStep, nExp, page, actions, lastError, lastObservation,
                   lastLLMResponse, llmCalls, execCalls, pageOps,
                   malformedTicks>>

\* Mutant: success is taken from the last evaluation.
MaxTicksResult_FromEvaluation(results) ==
    [kind |-> "result", success |-> AllPassed(results), ticksUsed |-> maxTicksPerStep,
     actions |-> actions, expectations |-> results,
     error |-> IF AllPassed(results) THEN Undefined ELSE "Max ticks exceeded",
     debugInfo |-> IF lastObservation # NoObservation THEN DebugInfo ELSE NoDebugInfo]

\* The StepResult built after the loop.
MaxTicksResult(results) ==
    [kind |-> "result", success |-> (nExp = 0), ticksUsed |-> maxTicksPerStep,
     actions |-> actions, expectations |-> results,
     error |-> IF nExp > 0 THEN "Max ticks exceeded" ELSE Undefined,
     debugInfo |-> IF lastObservation # NoObservation THEN DebugInfo ELSE NoDebugInfo]

\* Max ticks exceeded: a last evaluation, then the result.
MaxTicksExceeded ==
    /\ UNCHANGED otherVars
    /\ pc = "final_eval"
    /\ \E raised \in SUBSET Expectations :
          result' = MaxTicksResult(evaluateAllExpectations(StepExpectations, raised).results)
    /\ pc' = "returned"
    /\ exit' = "exhausted"
    /\ UNCHANGED <<maxTicksPerStep, nExp, page, tick, actions, lastError,
                   lastObservation, lastLLMResponse, action, llmCalls, execCalls,
                   pageOps, stepChecks,
                   checkPassed, malformedTicks>>

Next ==
    \/ StartStep
    \/ CollectObservation
    \/ CallLLM
    \/ LLMTimeout
    \/ ParseResponse
    \/ HandleFail
    \/ HandleAssert
    \/ ExecutePageAction
    \/ PostActionDelay
    \/ WaitForLoadState
    \/ CheckExpectations
    \/ MaxTicksExceeded

Spec == Init /\ [][Next]_vars

\* Every awaited operation settles: the single thread of executeStep always
\* takes its next step.
FairSpec == Spec /\ WF_vars(Next)

----------------------------------------------------------------------------
\* evaluateAllExpectations, followed statement by statement.  One run is one
\* call: the list and the page are the arguments, and every evaluation either
\* reads the page or has an error raised inside it (a locator that cannot be
\* built, a page that is gone), which evaluateExpectation catches.

MaxEvalLen == 3

SeqsUpTo(S, n) == UNION {[1..k -> S] : k \in 0..n}

\* No executeStep is running.
AgentIdle ==
    /\ maxTicksPerStep = 0
    /\ nExp = 0
    /\ pc = "idle"
    /\ tick = 0
    /\ actions = <<>>
    /\ lastError = Null
    /\ lastObservation = NoObservation
    /\ lastLLMResponse = EmptyResponse
    /\ action = NoAction
    /\ result = NoResult
    /\ llmCalls = 0
    /\ execCalls = 0
    /\ pageOps = 0
    /\ stepChecks = 0
    /\ checkPassed = FALSE
    /\ malformedTicks = 0
    /\ exit = "none"

EvalInit ==
    /\ AgentIdle
    /\ page \in SUBSET Facts
    /\ evalPc = "loop"
    /\ evalExpectations \in SeqsUpTo(Facts, MaxEvalLen)
    /\ evalResults = <<>>
    /\ evalAllPassed = FALSE
    /\ evalRaised = {}
    /\ MaskIdle
    /\ GenIdle
    /\ RestIdle

\* Mutant: the loop stops at the first failed result.
EvalLoopContinues_ShortCircuit ==
    /\ Len(evalResults) < Len(evalExpectations)
    /\ \A i \in 1..Len(evalResults) : evalResults[i].passed

\* for (const expectation of expectations): is there a next element?
EvalLoopContinues == Len(evalResults) < Len(evalExpectations)

\* const result = await evaluateExpectation(...); results.push(result)
EvaluateOne ==
    /\ evalPc = "loop"
    /\ EvalLoopContinues
    /\ LET i == Len(evalResults) + 1
           f == evalExpectations[i]
       IN \E raises \in BOOLEAN :
             /\ evalResults' = Append(evalResults,
                    evaluateExpectation(f, IF raises THEN {f} ELSE {}))
             /\ evalRaised' = IF raises THEN evalRaised \cup {i} ELSE evalRaised
    /\ UNCHANGED <<evalPc, evalExpectations, evalAllPassed, agentVars, maskVars, genVars,
                   restVars>>

\* The loop is over.
EvalLoopEnd ==
    /\ evalPc = "loop"
    /\ ~EvalLoopContinues
    /\ evalPc' = "every"
    /\ UNCHANGED <<evalExpectations, evalResults, evalAllPassed, evalRaised, agentVars,
                   maskVars, genVars, restVars>>

\* const allPassed = results.every(r => r.passed); return { allPassed, results }
EvalReturn ==
    /\ evalPc = "every"
    /\ evalAllPassed' = AllPassed(evalResults)
    /\ evalPc' = "returned"
    /\ UNCHANGED <<evalExpectations, evalResults, evalRaised, agentVars, maskVars, genVars,
                   restVars>>

EvalNext ==
    \/ EvaluateOne
    \/ EvalLoopEnd
    \/ EvalReturn

EvalSpec == EvalInit /\ [][EvalNext]_vars

----------------------------------------------------------------------------
\* The goal text of a step: variable interpolation and secret masking.
\*
\* A text is a sequence of tokens, cut where the two regular expressions
\* /\$\{ENV\.(\w+)\}/g and /\$\{ENV\.\w+\}/g cut it: a token is either one match,
\* the reference ${ENV.name} with a name of word characters, or a stretch of
\* text between matches.  "${ENV.a-b}" is such a stretch: its name has a
\* character outside \w, so neither expression matches it.

MaxGoalLen == 3

Names == {"USER", "PASS"}
Values == {"alice", "hunter2"}
Words == {"login", "${ENV.a-b}"}
MaskToken == "[MASKED]"

Ref(name) == [kind |-> "ref", v |-> name]
Text(t) == [kind |-> "text", v |-> t]

GoalTokens == {Ref(n) : n \in Names} \cup {Text(w) : w \in Words}

\* Record<string, string>: a name is bound to a value or is undefined.
Bindings == [Names -> Values \cup {Undefined}]

\* Mutant: replace without the g flag, only the first match is replaced.
maskSecrets_FirstOnly(text) ==
    [i \in 1..Len(text) |->
        IF text[i].kind = "ref" /\ \A j \in 1..(i - 1) : text[j].kind # "ref"
        THEN Text(MaskToken) ELSE text[i]]

\* text.replace(/\$\{ENV\.\w+\}/g, '[MASKED]')
maskSecrets(text) ==
    [i \in 1..Len(text) |-> IF text[i].kind = "ref" THEN Text(MaskToken) ELSE text[i]]

\* The replacer of interpolateVariables for one match: the test variables
\* first, then the environment, else the match itself.
resolve(name, vs, e) ==
    IF vs[name] # Undefined THEN Text(vs[name])
    ELSE IF e[name] # Undefined THEN Text(e[name])
    ELSE Ref(name)

\* text.replace(/\$\{ENV\.(\w+)\}/g, (match, name) => ...) of a runner whose
\* variables are vs, in a process whose environment is e.
interpolateWith(text, vs, e) ==
    [i \in 1..Len(text) |->
        IF text[i].kind = "ref" THEN resolve(text[i].v, vs, e) ELSE text[i]]

interpolateVariables(text) == interpolateWith(text, variables, env)

MaskInit ==
    /\ AgentIdle
    /\ page = {}
    /\ EvalIdle
    /\ maskPc = "harness"
    /\ stepGoal \in SeqsUpTo(GoalTokens, MaxGoalLen)
    /\ variables \in Bindings
    /\ env \in Bindings
    /\ goal = <<>>
    /\ harnessLog = <<>>
    /\ loggedGoal = <<>>
    /\ promptGoal = <<>>
    /\ filledText = <<>>
    /\ GenIdle
    /\ RestIdle

\* The test harness before the step: logger.info({ goal: maskSecrets(step.goal) })
HarnessLogStep ==
    /\ maskPc = "harness"
    /\ harnessLog' = maskSecrets(stepGoal)
    /\ maskPc' = "entry"
    /\ UNCHANGED <<stepGoal, variables, env, goal, loggedGoal, promptGoal, filledText,
                   agentVars, evalVars, genVars, restVars>>

\* executeStep: const goal = this.interpolateVariables(step.goal)
ResolveGoal ==
    /\ maskPc = "entry"
    /\ goal' = interpolateVariables(stepGoal)
    /\ maskPc' = "log"
    /\ UNCHANGED <<stepGoal, variables, env, harnessLog, loggedGoal, promptGoal,
                   filledText, agentVars, evalVars, genVars, restVars>>

\* executeStep: this.logger.info({ goal: maskSecrets(goal), ... }, 'Starting step')
LogStartingStep ==
    /\ maskPc = "log"
    /\ loggedGoal' = maskSecrets(goal)
    /\ maskPc' = "prompt"
    /\ UNCHANGED <<stepGoal, variables, env, goal, harnessLog, promptGoal, filledText,
                   agentVars, evalVars, genVars, restVars>>

\* buildUserPrompt({ goal, ... }): parts.push(`GOAL: ${goal}`)
BuildPrompt ==
    /\ maskPc = "prompt"
    /\ promptGoal' = goal
    /\ maskPc' = "fill"
    /\ UNCHANGED <<stepGoal, variables, env, goal, harnessLog, loggedGoal, filledText,
                   agentVars, evalVars, genVars, restVars>>

\* executeAction, case 'fill': const textToFill = this.interpolateVariables(action.text)
FillText ==
    /\ maskPc = "fill"
    /\ \E text \in SeqsUpTo(GoalTokens, 1) \ {<<>>} :
          filledText' = interpolateVariables(text)
    /\ maskPc' = "done"
    /\ UNCHANGED <<stepGoal, variables, env, goal, harnessLog, loggedGoal, promptGoal,
                   agentVars, evalVars, genVars, restVars>>

MaskNext ==
    \/ HarnessLogStep
    \/ ResolveGoal
    \/ LogStartingStep
    \/ BuildPrompt
    \/ FillText

MaskSpec == MaskInit /\ [][MaskNext]_vars

----------------------------------------------------------------------------
\* The selector scorer (recorder/selectors.ts).
\*
\* A raw selector string is abstracted to what the scorer reads off it: the
\* form its prefix and shape give it (the branch of parseSelector and
\* scoreCssSelector that answers for it), the text it carries, whether it
\* holds nth-child/nth-of-type, the number of its combinators, the number of
\* its dots and whether a token looks generated.

Forms == {"aria_role", "aria_label", "text", "xpath", "id", "testid", "css"}

Raw(form, text, nth, combinators, classes, generated) ==
    [form |-> form, text |-> text, nth |-> nth, combinators |-> combinators,
     classes |-> classes, generated |-> generated]

\* A piece of Playwright locator source: page.<fn>('<arg>' ...).
Code(fn, arg) == [fn |-> fn, arg |-> arg]
NoCode == Code("none", "")

Scored(code, score, raw, brittle, reason) ==
    [code |-> code, score |-> score, raw |-> raw, brittle |-> brittle, reason |-> reason]

Max(a, b) == IF a >= b THEN a ELSE b

\* Mutant: nth-child costs 25 points and leaves the flag alone.
scoreCssSelector_NthUnflagged(raw) ==
    IF raw.form = "id" THEN Scored(Code("locator", raw.text), 70, raw, FALSE, "stable #id")
    ELSE IF raw.form = "testid"
    THEN Scored(Code("getByTestId", raw.text), 85, raw, FALSE, "data-testid")
    ELSE LET longChain == raw.combinators > 3
             manyClasses == raw.classes > 3
             score == 60 - (IF raw.nth THEN 25 ELSE 0)
                         - (IF longChain THEN 10 * (raw.combinators - 3) ELSE 0)
                         - (IF manyClasses THEN 5 * (raw.classes - 3) ELSE 0)
                         - (IF raw.generated THEN 20 ELSE 0)
             brittle == longChain \/ manyClasses \/ raw.generated
         IN Scored(Code("locator", raw.text), Max(0, score), raw, brittle,
                   IF brittle THEN "CSS (penalized)" ELSE "CSS selector")

\* Mutant: the data-testid shape is not recognised and is scored as any CSS.
scoreCssSelector_NoTestId(raw) ==
    IF raw.form = "id" THEN Scored(Code("locator", raw.text), 70, raw, FALSE, "stable #id")
    ELSE LET longChain == raw.combinators > 3
             manyClasses == raw.classes > 3
             score == 60 - (IF raw.nth THEN 25 ELSE 0)
                         - (IF longChain THEN 10 * (raw.combinators - 3) ELSE 0)
                         - (IF manyClasses THEN 5 * (raw.classes - 3) ELSE 0)
                         - (IF raw.generated THEN 20 ELSE 0)
             brittle == raw.nth \/ longChain \/ manyClasses \/ raw.generated
         IN Scored(Code("locator", raw.text), Max(0, score), raw, brittle,
                   IF brittle THEN "CSS (penalized)" ELSE "CSS selector")

\* Mutant: the score is not floored at 0.
scoreCssSelector_NoFloor(raw) ==
    IF raw.form = "id" THEN Scored(Code("locator", raw.text), 70, raw, FALSE, "stable #id")
    ELSE IF raw.form = "testid"
    THEN Scored(Code("getByTestId", raw.text), 85, raw, FALSE, "data-testid")
    ELSE LET longChain == raw.combinators > 3
             manyClasses == raw.classes > 3
             score == 60 - (IF raw.nth THEN 25 ELSE 0)
                         - (IF longChain THEN 10 * (raw.combinators - 3) ELSE 0)
                         - (IF manyClasses THEN 5 * (raw.classes - 3) ELSE 0)
                         - (IF raw.generated THEN 20 ELSE 0)
             brittle == raw.nth \/ longChain \/ manyClasses \/ raw.generated
         IN Scored(Code("locator", raw.text), score, raw, brittle,
                   IF brittle THEN "CSS (penalized)" ELSE "CSS selector")

\* scoreCssSelector: #id and data-testid shapes first, else 60 less the penalties.
scoreCssSelector(raw) ==
    IF raw.form = "id" THEN Scored(Code("locator", raw.text), 70, raw, FALSE, "stable #id")
    ELSE IF raw.form = "testid"
    THEN Scored(Code("getByTestId", raw.text), 85, raw, FALSE, "data-testid")
    ELSE LET longChain == raw.combinators > 3
             manyClasses == raw.classes > 3
             score == 60 - (IF raw.nth THEN 25 ELSE 0)
                         - (IF longChain THEN 10 * (raw.combinators - 3) ELSE 0)
                         - (IF manyClasses THEN 5 * (raw.classes - 3) ELSE 0)
                         - (IF raw.generated THEN 20 ELSE 0)
             brittle == raw.nth \/ longChain \/ manyClasses \/ raw.generated
         IN Scored(Code("locator", raw.text), Max(0, score), raw, brittle,
                   IF brittle THEN "CSS (penalized)" ELSE "CSS selector")

\* Mutant: an XPath selector is not flagged.
parseSelector_XpathUnflagged(raw) ==
    IF raw.form = "aria_role"
    THEN Scored(Code("getByRole", raw.text), 100, raw, FALSE, "ARIA role+name")
    ELSE IF raw.form = "aria_label"
    THEN Scored(Code("getByLabel", raw.text), 90, raw, FALSE, "ARIA label")
    ELSE IF raw.form = "text"
    THEN Scored(Code("getByText", raw.text), 80, raw, FALSE, "text content")
    ELSE IF raw.form = "xpath"
    THEN Scored(Code("locator xpath=", raw.text), 20, raw, FALSE, "XPath")
    ELSE scoreCssSelector(raw)

\* parseSelector: by prefix, ARIA, text, XPath, else CSS.
parseSelector(raw) ==
    IF raw.form = "aria_role"
    THEN Scored(Code("getByRole", raw.text), 100, raw, FALSE, "ARIA role+name")
    ELSE IF raw.form = "aria_label"
    THEN Scored(Code("getByLabel", raw.text), 90, raw, FALSE, "ARIA label")
    ELSE IF raw.form = "text"
    THEN Scored(Code("getByText", raw.text), 80, raw, FALSE, "text content")
    ELSE IF raw.form = "xpath"
    THEN Scored(Code("locator xpath=", raw.text), 20, raw, TRUE, "XPath (brittle)")
    ELSE scoreCssSelector(raw)

\* Mutant: the fallback is not flagged.
BodyFallback_NotBrittle ==
    Scored(Code("locator", "body"), 0, Raw("body", "body", FALSE, 0, 0, FALSE), FALSE,
           "no selectors provided")

BodyFallback ==
    Scored(Code("locator", "body"), 0, Raw("body", "body", FALSE, 0, 0, FALSE), TRUE,
           "no selectors provided")

IsNonEmpty(alt) == Len(alt) > 0

\* The candidates: the first selector of every non-empty alternative, in order.
Candidates(selectors) ==
    LET alts == SelectSeq(selectors, IsNonEmpty)
    IN [i \in 1..Len(alts) |-> parseSelector(alts[i][1])]

\* Mutant: a candidate is put before the candidates of equal score.
InsertByScore_BeforeTies(sorted, c) ==
    LET before == SelectSeq(sorted, LAMBDA x : x.score > c.score)
        after == SelectSeq(sorted, LAMBDA x : x.score <= c.score)
    IN before \o <<c>> \o after

\* The place of one more candidate in an array sorted by (a, b) => b.score -
\* a.score: behind every candidate that scores at least as high, the sort
\* being stable.
InsertByScore(sorted, c) ==
    LET before == SelectSeq(sorted, LAMBDA x : x.score >= c.score)
        after == SelectSeq(sorted, LAMBDA x : x.score < c.score)
    IN before \o <<c>> \o after

\* candidates.sort((a, b) => b.score - a.score)
RECURSIVE SortByScore(_)
SortByScore(cands) ==
    IF cands = <<>> THEN <<>>
    ELSE InsertByScore(SortByScore(SubSeq(cands, 1, Len(cands) - 1)), cands[Len(cands)])

\* selectBestSelector: stable sort by descending score, first element.
selectBestSelector(selectors) ==
    LET candidates == SortByScore(Candidates(selectors))
    IN IF Len(candidates) = 0 THEN BodyFallback ELSE candidates[1]

\* locatorOverrideToCode, for the descriptor of an override entry.
locatorOverrideToCode(locator) ==
    IF locator.kind = "role" THEN Code("getByRole", locator.value)
    ELSE IF locator.kind = "label" THEN Code("getByLabel", locator.value)
    ELSE IF locator.kind = "text" THEN Code("getByText", locator.value)
    ELSE IF locator.kind = "testid" THEN Code("getByTestId", locator.value)
    ELSE Code("locator", locator.value)

\* A caller of selectBestSelector: it holds a list of alternatives and
\* passes it, or another list, to the function, a few times in any order.
\*
\* The lists are the short lists over a pool of alternatives of every form,
\* and the lists of one or two alternatives in which one selector ranges
\* over every form and every count of the features the scorer reads.

MaxAlts == 3
MaxCalls == 3
MaxCombinators == 5
MaxClasses == 4

\* The alternatives of the short lists: an empty one, one of every form,
\* two CSS selectors of the same score, and one that spans two frames, of
\* which only the first selector is read.
AltPool ==
    {<<>>,
     <<Raw("aria_role", "Sign in", FALSE, 0, 0, FALSE)>>,
     <<Raw("aria_label", "Email", FALSE, 0, 0, FALSE)>>,
     <<Raw("text", "Login", FALSE, 0, 0, FALSE)>>,
     <<Raw("testid", "login-btn", FALSE, 0, 0, FALSE)>>,
     <<Raw("id", "#username", FALSE, 0, 0, FALSE)>>,
     <<Raw("css", "button.btn-primary", FALSE, 0, 1, FALSE)>>,
     <<Raw("css", "button.radius", FALSE, 0, 1, FALSE)>>,
     <<Raw("css", "ul > li:nth-child(3) > a", TRUE, 2, 0, FALSE)>>,
     <<Raw("xpath", "//a", FALSE, 0, 0, FALSE)>>,
     <<Raw("css", "button.btn-primary", FALSE, 0, 1, FALSE),
       Raw("aria_role", "Sign in", FALSE, 0, 0, FALSE)>>}

\* Every form, with and without nth-child in the string; a generic CSS
\* selector with every count of combinators and dots up to the bounds.
RawPool ==
    {Raw(form, "x", nth, 0, 0, FALSE) : form \in Forms \ {"css"}, nth \in BOOLEAN}
    \cup {Raw("css", "x", nth, combinators, classes, generated) :
             nth \in BOOLEAN, combinators \in 0..MaxCombinators,
             classes \in 0..MaxClasses, generated \in BOOLEAN}

SelectorLists ==
    SeqsUpTo(AltPool, MaxAlts)
    \cup {<<<<raw>>>> : raw \in RawPool}
    \cup {<<<<raw>>, alt>> : raw \in RawPool, alt \in AltPool}
    \cup {<<alt, <<raw>>>> : raw \in RawPool, alt \in AltPool}

\* The list of another caller.
OtherSelectors ==
    <<<<Raw("css", "ul > li:nth-child(3) > a", TRUE, 2, 0, FALSE)>>,
      <<Raw("xpath", "//a", FALSE, 0, 0, FALSE)>>>>

ScoreCall(selectors, returned) == [selectors |-> selectors, returned |-> returned]

ScoreInit ==
    /\ AgentIdle
    /\ page = {}
    /\ EvalIdle
    /\ MaskIdle
    /\ GenIdle
    /\ ReviewIdle
    /\ HarnessIdle
    /\ ObsIdle
    /\ scoreInput \in SelectorLists
    /\ sortedCandidates = <<>>
    /\ scoreCalls = <<>>

\* Mutant: the sort is done on the list of the caller.
SelectBest_SortsInput ==
    /\ Len(scoreCalls) < MaxCalls
    /\ LET alts == SelectSeq(scoreInput, IsNonEmpty)
           order == SortByScore([i \in 1..Len(alts) |->
                        [score |-> parseSelector(alts[i][1]).score, alt |-> alts[i]]])
       IN /\ scoreInput' = [i \in 1..Len(order) |-> order[i].alt]
          /\ sortedCandidates' = SortByScore(Candidates(scoreInput))
          /\ scoreCalls' = Append(scoreCalls,
                               ScoreCall(scoreInput, selectBestSelector(scoreInput)))
    /\ UNCHANGED <<agentVars, evalVars, maskVars, genVars, reviewVars,
                   harnessVars, obsVars>>

\* selectBestSelector(selectors), on the list of the caller: the candidates
\* are a new array, which is sorted; the list passed is only read.
SelectBest ==
    /\ Len(scoreCalls) < MaxCalls
    /\ sortedCandidates' = SortByScore(Candidates(scoreInput))
    /\ scoreCalls' = Append(scoreCalls, ScoreCall(scoreInput, selectBestSelector(scoreInput)))
    /\ UNCHANGED <<scoreInput, agentVars, evalVars, maskVars, genVars, reviewVars,
                   harnessVars, obsVars>>

\* selectBestSelector called by somebody else, on another list.
SelectBestOther ==
    /\ Len(scoreCalls) < MaxCalls
    /\ sortedCandidates' = SortByScore(Candidates(OtherSelectors))
    /\ scoreCalls' = Append(scoreCalls,
                         ScoreCall(OtherSelectors, selectBestSelector(OtherSelectors)))
    /\ UNCHANGED <<scoreInput, agentVars, evalVars, maskVars, genVars, reviewVars,
                   harnessVars, obsVars>>

ScoreNext ==
    \/ SelectBest
    \/ SelectBestOther

ScoreSpec == ScoreInit /\ [][ScoreNext]_vars

----------------------------------------------------------------------------
\* The recording generator (recorder/generate.ts): one run of generate().
\*
\* The run reads the recording files in sorted order; what a file holds is
\* chosen when it is read: any file may be rejected, a.json may hold any
\* recording of the pool with any sidecars, b.json a recording of one click.
\* A recording has a title, a sequence of characters; its sidecars and its
\* generated script are named after the sanitized title, so two recordings
\* of the same sanitized title share their sidecars.  Failures of
\* the file system and sidecar files that fail their own schema end the run
\* with an exception before anything else is decided, and are left out.

MaxSteps == 2

FileNames == {"a.json", "b.json"}
InvalidKinds == {"invalid JSON", "schema mismatch", "HAR detected"}

\* Titles: an upper-case letter, lower-case letters, and a character that is
\* neither a letter nor a digit.
Titles == {<<"A">>, <<"a", "!">>, <<"b">>}
FileNameLimit == 80

toLowerCase(c) == CASE c = "A" -> "a" [] c = "B" -> "b" [] OTHER -> c
IsLowerAlnum(c) == c \in {"a", "b", "0", "1"}

\* .replace(/[^a-z0-9]+/g, '-'): every run of other characters becomes one dash.
RECURSIVE DashRuns(_)
DashRuns(s) ==
    IF s = <<>> THEN <<>>
    ELSE LET rest == DashRuns(Tail(s))
         IN IF IsLowerAlnum(Head(s)) THEN <<Head(s)>> \o rest
            ELSE IF Tail(s) # <<>> /\ ~IsLowerAlnum(Head(Tail(s))) THEN rest
            ELSE <<"-">> \o rest

\* .replace(/^-+|-+$/g, ''), on a string whose dashes no longer form runs
TrimDashes(s) ==
    LET t == IF s # <<>> /\ Head(s) = "-" THEN Tail(s) ELSE s
    IN IF t # <<>> /\ t[Len(t)] = "-" THEN SubSeq(t, 1, Len(t) - 1) ELSE t

sanitizeFilename(title) ==
    LET lower == [k \in 1..Len(title) |-> toLowerCase(title[k])]
        name == TrimDashes(DashRuns(lower))
    IN IF Len(name) > FileNameLimit THEN SubSeq(name, 1, FileNameLimit) ELSE name

Step(type, hasSelectors, selectors) ==
    [type |-> type, hasSelectors |-> hasSelectors, selectors |-> selectors]

AriaLogin == Raw("aria_role", "Login", FALSE, 0, 0, FALSE)
CssBtn == Raw("css", "div>span.btn", FALSE, 1, 1, FALSE)
CssNth == Raw("css", "li:nth-child(2)", TRUE, 0, 0, FALSE)

\* The steps a recording is made of here: a navigation, clicks with stable,
\* brittle, no and only empty selector alternatives, a scroll of the page,
\* and a step of a type the generator does not know.
StepPool ==
    {Step("navigate", FALSE, <<>>),
     Step("click", TRUE, <<<<AriaLogin>>, <<CssBtn>>>>),
     Step("click", TRUE, <<<<CssNth>>>>),
     Step("click", TRUE, <<>>),
     Step("click", TRUE, <<<<>>>>),
     Step("scroll", FALSE, <<>>),
     Step("drag", FALSE, <<>>)}

Override(stepIndex, type, locator) ==
    [step |-> stepIndex, action |-> type, locator |-> locator]
BtnLocator == [kind |-> "css", value |-> ".btn"]
OverridePool ==
    {<<>>, <<Override(0, "click", BtnLocator)>>, <<Override(1, "click", BtnLocator)>>}

Assertion(afterStep, expect) == [afterStep |-> afterStep, expect |-> expect]
AssertionPool ==
    {<<>>, <<Assertion(0, <<"url_contains", "visible_text">>)>>,
     <<Assertion(0, <<"url_contains", "visible_text">>), Assertion(0, <<"role_visible">>)>>,
     <<Assertion(MaxSteps, <<"url_contains", "visible_text">>)>>}

ValidContents ==
    {Content("recording", title, steps, overrides, assertions) :
        title \in Titles, steps \in SeqsUpTo(StepPool, MaxSteps),
        overrides \in OverridePool, assertions \in AssertionPool}

\* b.json is the sibling of the recording under study: one click, stable or
\* brittle.  Its sidecars are those of the recording read before it when
\* both have the same sanitized title, and it has none otherwise.
SiblingContents ==
    {Content("recording", title, <<step>>,
             IF recording.kind = "recording"
                /\ sanitizeFilename(title) = sanitizeFilename(recording.title)
             THEN recording.overrides ELSE <<>>,
             IF recording.kind = "recording"
                /\ sanitizeFilename(title) = sanitizeFilename(recording.title)
             THEN recording.assertions ELSE <<>>) :
        title \in Titles,
        step \in {Step("click", TRUE, <<<<AriaLogin>>, <<CssBtn>>>>),
                  Step("click", TRUE, <<<<CssNth>>>>)}}

ContentsOf(file) == IF file = "a.json" THEN ValidContents ELSE SiblingContents

\* The sorted lists of files a recordings directory can hold.
SortedFileLists == {<<>>, <<"a.json">>, <<"b.json">>, <<"a.json", "b.json">>}

NullScored == Scored(NoCode, 0, Raw("null", "", FALSE, 0, 0, FALSE), FALSE, "null")

LacksSelectors(step) == ~step.hasSelectors \/ Len(step.selectors) = 0

getBestScoredSelector(step) ==
    IF LacksSelectors(step) THEN NullScored ELSE selectBestSelector(step.selectors)

getBestLocatorCode(step) ==
    IF LacksSelectors(step) THEN Code("locator", "body")
    ELSE selectBestSelector(step.selectors).code

\* Mutant: the step numbers of the sidecar are taken to start at 1.
OverrideCode_OneBased(overrides, stepIndex, type) ==
    LET hits == {k \in 1..Len(overrides) :
                    overrides[k].step = stepIndex + 1 /\ overrides[k].action = type}
    IN IF hits = {} THEN NoCode
       ELSE locatorOverrideToCode(
               overrides[CHOOSE k \in hits : \A h \in hits : h <= k].locator)

\* overrideMap.get(`${stepIndex}:${type}`) ?? null; a later entry of the
\* sidecar replaces an earlier one with the same key.
OverrideCode(overrides, stepIndex, type) ==
    LET hits == {k \in 1..Len(overrides) :
                    overrides[k].step = stepIndex /\ overrides[k].action = type}
    IN IF hits = {} THEN NoCode
       ELSE locatorOverrideToCode(
               overrides[CHOOSE k \in hits : \A h \in hits : h <= k].locator)

\* assertionMap.get(stepIndex): the expect list of the last entry for the step.
StepAssertions(assertions, stepIndex) ==
    LET hits == {k \in 1..Len(assertions) : assertions[k].afterStep = stepIndex}
    IN IF hits = {} THEN <<>>
       ELSE <<assertions[CHOOSE k \in hits : \A h \in hits : h <= k].expect>>

LocatorTypes == {"click", "doubleClick", "change", "hover", "waitForElement"}
KnownTypes ==
    LocatorTypes \cup {"navigate", "keyDown", "keyUp", "scroll", "setViewport",
                       "waitForExpression", "customStep"}

\* Mutant: the scorer's locator is used whenever the step has selectors.
StepLocator_ScorerFirst(step, overrideCode) ==
    IF step.type \in LocatorTypes \/ (step.type = "scroll" /\ ~LacksSelectors(step))
    THEN IF LacksSelectors(step) /\ overrideCode # NoCode THEN overrideCode
         ELSE getBestLocatorCode(step)
    ELSE NoCode

\* The locator of the code generated for a step: the override, else the
\* scorer's; a scroll addresses an element only if it has selectors.
StepLocator(step, overrideCode) ==
    IF step.type \in LocatorTypes \/ (step.type = "scroll" /\ ~LacksSelectors(step))
    THEN IF overrideCode # NoCode THEN overrideCode ELSE getBestLocatorCode(step)
    ELSE NoCode

\* The test.step block of step number stepIndex.
StepBlock(c, stepIndex) ==
    LET step == c.steps[stepIndex + 1]
    IN [kind |-> "step", index |-> stepIndex, type |-> step.type,
        template |-> IF step.type \in KnownTypes THEN step.type ELSE "unsupported",
        locator |-> StepLocator(step, OverrideCode(c.overrides, stepIndex, step.type)),
        expect |-> <<>>]

AssertBlocks(c, stepIndex) ==
    LET exps == StepAssertions(c.assertions, stepIndex)
    IN IF exps = <<>> THEN <<>>
       ELSE <<[kind |-> "assert", index |-> stepIndex, type |-> "assert",
               template |-> "assert", locator |-> NoCode, expect |-> exps[1]]>>

\* The body of the generated test: the blocks of steps 0..n-1 in order.
RECURSIVE BlocksUpTo(_, _)
BlocksUpTo(c, n) ==
    IF n = 0 THEN <<>>
    ELSE BlocksUpTo(c, n - 1) \o <<StepBlock(c, n - 1)>> \o AssertBlocks(c, n - 1)

\* The brittle selectors of steps 0..n-1: a step without override whose
\* scored selector is brittle.
RECURSIVE BrittleUpTo(_, _, _)
BrittleUpTo(title, c, n) ==
    IF n = 0 THEN <<>>
    ELSE LET stepIndex == n - 1
             step == c.steps[n]
             scored == getBestScoredSelector(step)
         IN BrittleUpTo(title, c, n - 1) \o
            (IF OverrideCode(c.overrides, stepIndex, step.type) = NoCode /\ scored.brittle
             THEN <<[recording |-> title, step |-> stepIndex, type |-> step.type,
                     selector |-> scored]>>
             ELSE <<>>)

GenInit ==
    /\ AgentIdle
    /\ page = {}
    /\ EvalIdle
    /\ MaskIdle
    /\ RestIdle
    /\ genPc = "discover"
    /\ STRICT_SELECTORS \in BOOLEAN
    /\ recordingFiles \in SortedFileLists
    /\ filesDone = 0
    /\ recording = NoContent
    /\ specLines = <<>>
    /\ outputDir = {}
    /\ filesWritten = <<>>
    /\ brittleSelectors = <<>>
    /\ invalidRecordings = <<>>
    /\ printed = <<>>
    /\ genResult = NoGenResult

GenResult(kind, written, brittle, rejected, exitCode) ==
    [kind |-> kind, filesWritten |-> written, brittleSelectors |-> brittle,
     rejected |-> rejected, exitCode |-> exitCode]

\* if (recordingFiles.length === 0) return { filesWritten: [], brittleSelectors: [] }
Discover ==
    /\ genPc = "discover"
    /\ IF Len(recordingFiles) = 0
       THEN /\ genResult' = GenResult("return", <<>>, <<>>, <<>>, 0)
            /\ genPc' = "returned"
       ELSE /\ genPc' = "loop"
            /\ UNCHANGED genResult
    /\ UNCHANGED <<STRICT_SELECTORS, recordingFiles, filesDone, recording, specLines,
                   outputDir, filesWritten, brittleSelectors, invalidRecordings, printed,
                   agentVars, evalVars, maskVars, restVars>>

\* A file that is not JSON or not a recording: invalidRecordings.push, continue.
RejectFile ==
    /\ genPc = "loop"
    /\ filesDone < Len(recordingFiles)
    /\ \E reason \in InvalidKinds :
          /\ recording' = Content(reason, <<>>, <<>>, <<>>, <<>>)
          /\ invalidRecordings' = Append(invalidRecordings,
                [file |-> recordingFiles[filesDone + 1], reason |-> reason])
    /\ filesDone' = filesDone + 1
    /\ UNCHANGED <<genPc, STRICT_SELECTORS, recordingFiles, specLines, outputDir,
                   filesWritten, brittleSelectors, printed, genResult,
                   agentVars, evalVars, maskVars, restVars>>

\* A valid recording: the sidecars, the step loop, writeFileSync, filesWritten.push.
GenerateFile ==
    /\ genPc = "loop"
    /\ filesDone < Len(recordingFiles)
    /\ \E c \in ContentsOf(recordingFiles[filesDone + 1]) :
          LET recordingName == sanitizeFilename(c.title)
          IN /\ recording' = c
             /\ brittleSelectors' = brittleSelectors \o BrittleUpTo(c.title, c, Len(c.steps))
             /\ specLines' = BlocksUpTo(c, Len(c.steps))
             /\ outputDir' = outputDir \cup {recordingName}
             /\ filesWritten' = Append(filesWritten, recordingName)
    /\ filesDone' = filesDone + 1
    /\ UNCHANGED <<genPc, STRICT_SELECTORS, recordingFiles, invalidRecordings, printed,
                   genResult, agentVars, evalVars, maskVars, restVars>>

LoopDone == genPc = "loop" /\ filesDone = Len(recordingFiles)

NoneValid == Len(filesWritten) = 0 /\ Len(invalidRecordings) > 0

\* Mutant: the error names the first rejected file only.
ThrowNoValidRecordings_FirstOnly ==
    /\ LoopDone
    /\ NoneValid
    /\ genResult' = GenResult("throw", filesWritten, brittleSelectors,
                              <<invalidRecordings[1]>>, 1)
    /\ genPc' = "threw"
    /\ UNCHANGED <<STRICT_SELECTORS, recordingFiles, filesDone, recording, specLines,
                   outputDir, filesWritten, brittleSelectors, invalidRecordings, printed,
                   agentVars, evalVars, maskVars, restVars>>

\* if (filesWritten.length === 0 && invalidRecordings.length > 0) throw new Error(...)
ThrowNoValidRecordings ==
    /\ LoopDone
    /\ NoneValid
    /\ genResult' = GenResult("throw", filesWritten, brittleSelectors, invalidRecordings, 1)
    /\ genPc' = "threw"
    /\ UNCHANGED <<STRICT_SELECTORS, recordingFiles, filesDone, recording, specLines,
                   outputDir, filesWritten, brittleSelectors, invalidRecordings, printed,
                   agentVars, evalVars, maskVars, restVars>>

BrittleLine(b) ==
    [recording |-> b.recording, step |-> b.step, type |-> b.type,
     reason |-> b.selector.reason, raw |-> b.selector.raw]

\* Mutant: the brittle selectors are only ever a warning.
ReportAndReturn_WarnOnly ==
    /\ LoopDone
    /\ ~NoneValid
    /\ printed' = [k \in 1..Len(brittleSelectors) |-> BrittleLine(brittleSelectors[k])]
    /\ genResult' = GenResult("return", filesWritten, brittleSelectors, <<>>, 0)
    /\ genPc' = "returned"
    /\ UNCHANGED <<STRICT_SELECTORS, recordingFiles, filesDone, recording, specLines,
                   outputDir, filesWritten, brittleSelectors, invalidRecordings,
                   agentVars, evalVars, maskVars, restVars>>

\* if (brittleSelectors.length > 0) { log every entry; if (STRICT_SELECTORS) exit(1) }
\* return { filesWritten, brittleSelectors }
ReportAndReturn ==
    /\ LoopDone
    /\ ~NoneValid
    /\ IF Len(brittleSelectors) > 0
       THEN /\ printed' = [k \in 1..Len(brittleSelectors) |-> BrittleLine(brittleSelectors[k])]
            /\ IF STRICT_SELECTORS
               THEN /\ genResult' = GenResult("exit", <<>>, <<>>, <<>>, 1)
                    /\ genPc' = "exited"
               ELSE /\ genResult' = GenResult("return", filesWritten, brittleSelectors,
                                              <<>>, 0)
                    /\ genPc' = "returned"
       ELSE /\ genResult' = GenResult("return", filesWritten, brittleSelectors, <<>>, 0)
            /\ genPc' = "returned"
            /\ UNCHANGED printed
    /\ UNCHANGED <<STRICT_SELECTORS, recordingFiles, filesDone, recording, specLines,
                   outputDir, filesWritten, brittleSelectors, invalidRecordings,
                   agentVars, evalVars, maskVars, restVars>>

GenNext ==
    \/ Discover
    \/ RejectFile
    \/ GenerateFile
    \/ ThrowNoValidRecordings
    \/ ReportAndReturn

GenSpec == GenInit /\ [][GenNext]_vars

----------------------------------------------------------------------------
\* The override reviewer (recorder/review.ts): one run of reviewRecording.
\*
\* The recording is abstracted to the types of its steps, a step without a
\* usable type (none, not a string, the empty string) having the type "".
\* An overrides file is the list of its entries; the YAML text written and
\* read back is taken to hold that list.  The failure context is abstracted
\* to the step its marker or its role mentions point to and to whether a
\* locator can be inferred for that step.  A run that cannot find or read
\* the recording or the failure context ends before it does anything and is
\* left out.

MaxReviewSteps == 2

NoType == ""
ReviewTypes == {"click", "navigate"}

\* A selector of a step: an aria/ selector with the name and role that
\* parseAriaSelector reads (role "" when it has none), or another selector
\* with the element text it holds.
Sel(aria, name, role) == [aria |-> aria, name |-> name, role |-> role]
\* A step of the recording: its type (NoType when it is not a string) and
\* the first selector of each alternative (flattenStepSelectors).
ReviewStep(type, sels) == [type |-> type, sels |-> sels]
\* A line '- role "name"' of the failure text (extractRoleCandidatesFromContext):
\* the role in lower case, the name as written.
Mention(role, name) == [role |-> role, name |-> name]
\* The first 'step N: type' of the failure text.
Marker(n, type) == [step |-> n, type |-> type]
Context(marker, mentions) == [marker |-> marker, mentions |-> mentions]

ReviewStepKinds ==
    {ReviewStep("click", <<Sel(TRUE, "Login", "")>>), ReviewStep("navigate", <<>>),
     ReviewStep(NoType, <<>>)}
ReviewRecordings == SeqsUpTo(ReviewStepKinds, MaxReviewSteps)

OldLocator == [kind |-> "css", value |-> ".old"]
NewLocator == [kind |-> "role", value |-> "Login"]
RoleLocator(role, name) == [kind |-> "role", role |-> role, name |-> name, exact |-> TRUE]
LabelLocator(text) == [kind |-> "label", text |-> text]
BadLocator == [kind |-> "xpath", value |-> "//a"]
LocatorKinds == {"role", "label", "text", "testid", "css"}

EntrySteps == -1..MaxReviewSteps
OldEntries == {Override(n, type, OldLocator) : n \in EntrySteps, type \in ReviewTypes}
NewEntries == {Override(n, type, NewLocator) : n \in EntrySteps, type \in ReviewTypes}

\* The files the run can find: none, an empty one, one entry, two entries
\* out of order, and one that fails the schema.
ExistingFiles ==
    {NoFile, File(TRUE, <<>>)}
    \cup {File(TRUE, <<e>>) : e \in OldEntries}
    \cup {File(TRUE, <<Override(1, "click", OldLocator), Override(0, "click", OldLocator)>>),
          File(TRUE, <<Override(0, "click", BadLocator)>>)}

\* What llm.generateAction can answer: a rejected promise, text without a
\* JSON object, or an object normalised to a list of entries: none, one,
\* two under the same key, or one that fails the schema.
ReviewResponse(kind, entries) == [kind |-> kind, overrides |-> entries]
ReviewResponses ==
    {ReviewResponse("error", <<>>), ReviewResponse("no JSON", <<>>),
     ReviewResponse("overrides", <<>>)}
    \cup {ReviewResponse("overrides", <<e>>) : e \in NewEntries}
    \cup {ReviewResponse("overrides",
             <<Override(0, "click", BtnLocator), Override(0, "click", NewLocator)>>),
          ReviewResponse("overrides", <<Override(0, "click", BadLocator)>>)}

\* The failure texts of the review run: with a marker of the first step or
\* of a step behind the recording, or without one, and with a button, a
\* heading or nothing mentioned.
ErrorContexts ==
    {Context(marker, mentions) :
        marker \in {NoMarker, Marker(0, "click"), Marker(MaxReviewSteps, "click")},
        mentions \in {<<>>, <<Mention("button", "Login")>>,
                      <<Mention("heading", "Welcome")>>}}

\* OverridesFileSchema.safeParse
SchemaValid(entries) ==
    \A k \in 1..Len(entries) : entries[k].locator.kind \in LocatorKinds

\* Mutant: only the range of the step index is validated.
EntryIssue_RangeOnly(entry, steps) ==
    IF entry.step < 0 \/ entry.step >= Len(steps) THEN "out of range" ELSE "none"

\* The issue validateOverridesAgainstRecording raises for one entry.
EntryIssue(entry, steps) ==
    IF entry.step < 0 \/ entry.step >= Len(steps) THEN "out of range"
    ELSE LET stepType == steps[entry.step + 1].type
         IN IF stepType = NoType THEN "no valid type"
            ELSE IF stepType # entry.action THEN "action mismatch"
            ELSE "none"

\* validateOverridesAgainstRecording: TRUE when it throws.
validateOverridesAgainstRecording(entries, steps) ==
    LET issues == SelectSeq([k \in 1..Len(entries) |-> EntryIssue(entries[k], steps)],
                            LAMBDA issue : issue # "none")
    IN Len(issues) > 0

Validation(entries, threw) == [overrides |-> entries, threw |-> threw]

\* The key `${entry.step}:${entry.action}` of the merge, and the order of
\* a.step - b.step || a.action.localeCompare(b.action).
KeyOf(entry) == <<entry.step, entry.action>>
ActionRank(type) == IF type = "click" THEN 1 ELSE 2
KeyBefore(a, b) == a[1] < b[1] \/ (a[1] = b[1] /\ ActionRank(a[2]) < ActionRank(b[2]))

\* merged.set(key, entry): an entry under a key the map holds takes the
\* place of the one it holds, any other entry goes behind the last one.
MapSet(merged, entry) ==
    IF \E k \in 1..Len(merged) : KeyOf(merged[k]) = KeyOf(entry)
    THEN [k \in 1..Len(merged) |->
             IF KeyOf(merged[k]) = KeyOf(entry) THEN entry ELSE merged[k]]
    ELSE Append(merged, entry)

RECURSIVE MapSetAll(_, _)
MapSetAll(merged, entries) ==
    IF Len(entries) = 0 THEN merged
    ELSE MapSetAll(MapSet(merged, Head(entries)), Tail(entries))

\* Array.prototype.sort is stable: an entry goes behind every entry that
\* its key is not before.
InsertByKey(sorted, entry) ==
    LET behind == {k \in 1..Len(sorted) : ~KeyBefore(KeyOf(entry), KeyOf(sorted[k]))}
        at == IF behind = {} THEN 0 ELSE CHOOSE k \in behind : \A j \in behind : j <= k
    IN SubSeq(sorted, 1, at) \o <<entry>> \o SubSeq(sorted, at + 1, Len(sorted))

RECURSIVE SortByKey(_)
SortByKey(entries) ==
    IF Len(entries) = 0 THEN <<>>
    ELSE InsertByKey(SortByKey(SubSeq(entries, 1, Len(entries) - 1)),
                     entries[Len(entries)])

\* Mutant: an entry under a key the map holds is dropped.
mergeOverrideEntries_ExistingWins(existing, proposal) ==
    SortByKey(MapSetAll(MapSetAll(<<>>, proposal), existing))

\* mergeOverrideEntries: the existing entries, then the proposed ones, are
\* set into a map under their keys, and the values of the map are sorted by
\* step and action.
mergeOverrideEntries(existing, proposal) ==
    SortByKey(MapSetAll(MapSetAll(<<>>, existing), proposal))

\* String.prototype.toLowerCase on the names and roles of the model.
LowerCase(name) ==
    CASE name = "Login" -> "login"
      [] name = "Forgot Password" -> "forgot password"
      [] name = "Button" -> "button"
      [] OTHER -> name

RECURSIVE SumSeq(_)
SumSeq(numbers) ==
    IF Len(numbers) = 0 THEN 0 ELSE Head(numbers) + SumSeq(Tail(numbers))

\* Array.prototype.find: the index of the first element that passes, given
\* the indices of the elements that pass; 0 for undefined.
FindIndex(passing) ==
    IF passing = {} THEN 0 ELSE CHOOSE k \in passing : \A j \in passing : k <= j

ClickTypes == {"click", "doubleClick", "hover"}
clickableRoles == {"button", "link", "menuitem", "tab", "option"}
formRoles == {"textbox", "combobox", "spinbutton", "searchbox"}

\* The score of one step in findLikelyStepIndexFromContext.
StepScore(step, mentions) ==
    LET forSelector(sel, mention) ==
            IF ~sel.aria THEN 0
            ELSE (IF LowerCase(sel.name) = LowerCase(mention.name) THEN 12 ELSE 0)
                 + (IF sel.role # "" /\ LowerCase(sel.role) = mention.role THEN 6 ELSE 0)
        forMention(mention) ==
            SumSeq([k \in 1..Len(step.sels) |-> forSelector(step.sels[k], mention)])
            + (IF \E k \in 1..Len(step.sels) :
                     LowerCase(step.sels[k].name) = LowerCase(mention.name)
               THEN 4 ELSE 0)
    IN (IF step.type \in ClickTypes THEN 2 ELSE 0)
       + SumSeq([k \in 1..Len(mentions) |-> forMention(mentions[k])])

\* findLikelyStepIndexFromContext: the first step of the highest score,
\* NoStep (null) without a mention or without a step that scores.
findLikelyStepIndexFromContext(steps, mentions) ==
    IF Len(mentions) = 0 THEN NoStep
    ELSE LET scoring == {i \in 1..Len(steps) :
                            /\ StepScore(steps[i], mentions) > 0
                            /\ \A j \in 1..Len(steps) :
                                  /\ StepScore(steps[j], mentions)
                                        <= StepScore(steps[i], mentions)
                                  /\ j < i => StepScore(steps[j], mentions)
                                                 < StepScore(steps[i], mentions)}
         IN IF scoring = {} THEN NoStep ELSE (CHOOSE i \in scoring : TRUE) - 1

NoLocator == [kind |-> "none"]

\* Mutant: the first clickable mention is taken, whatever its name.
inferLocatorFromFailure_FirstClickable(stepType, sels, mentions) ==
    LET fromContext ==
            FindIndex({k \in 1..Len(mentions) : mentions[k].role \in clickableRoles})
    IN IF stepType \in ClickTypes /\ fromContext > 0
       THEN RoleLocator(mentions[fromContext].role, mentions[fromContext].name)
       ELSE NoLocator

\* inferLocatorFromFailure: NoLocator for null.
inferLocatorFromFailure(stepType, sels, mentions) ==
    LET ariaCandidates == SelectSeq(sels, LAMBDA sel : sel.aria)
        ariaNames == {LowerCase(ariaCandidates[k].name) : k \in 1..Len(ariaCandidates)}
        mentionAt == 1..Len(mentions)
        ariaAt == 1..Len(ariaCandidates)
        matchingByName == FindIndex({k \in mentionAt :
                                       /\ mentions[k].role \in clickableRoles
                                       /\ LowerCase(mentions[k].name) \in ariaNames})
        clickable == FindIndex({k \in mentionAt : mentions[k].role \in clickableRoles})
        withRole == FindIndex({k \in ariaAt : ariaCandidates[k].role # ""})
        withName == FindIndex({k \in ariaAt : ariaCandidates[k].name # ""})
        formMention == FindIndex({k \in mentionAt : mentions[k].role \in formRoles})
        named == FindIndex({k \in mentionAt : mentions[k].name # ""})
    IN IF stepType \in ClickTypes /\ matchingByName > 0
       THEN RoleLocator(mentions[matchingByName].role, mentions[matchingByName].name)
       ELSE IF stepType \in ClickTypes /\ clickable > 0
       THEN RoleLocator(mentions[clickable].role, mentions[clickable].name)
       ELSE IF stepType \in ClickTypes /\ withRole > 0
       THEN RoleLocator(ariaCandidates[withRole].role, ariaCandidates[withRole].name)
       ELSE IF stepType \in ClickTypes /\ withName > 0
       THEN RoleLocator("button", ariaCandidates[withName].name)
       ELSE IF stepType = "change" /\ formMention > 0
       THEN RoleLocator(mentions[formMention].role, mentions[formMention].name)
       ELSE IF stepType = "change" /\ withName > 0
       THEN LabelLocator(ariaCandidates[withName].name)
       ELSE IF stepType = "waitForElement" /\ named > 0
       THEN RoleLocator(mentions[named].role, mentions[named].name)
       ELSE NoLocator

\* Mutant: the entry takes the type the marker names.
suggestOverridesFromFailureContext_MarkerType(steps, context) ==
    LET stepIndex == context.marker.step
    IN IF stepIndex < 0 \/ stepIndex >= Len(steps) THEN <<>>
       ELSE LET step == steps[stepIndex + 1]
                locator == inferLocatorFromFailure(step.type, step.sels, context.mentions)
            IN IF locator = NoLocator THEN <<>>
               ELSE <<Override(stepIndex, context.marker.type, locator)>>

\* suggestOverridesFromFailureContext: at most one entry, for the step of
\* the marker or else the step that scores best, under the type of that
\* step.
suggestOverridesFromFailureContext(steps, context) ==
    LET stepIndex == IF context.marker.step # NoStep THEN context.marker.step
                     ELSE findLikelyStepIndexFromContext(steps, context.mentions)
    IN IF stepIndex = NoStep THEN <<>>
       ELSE IF stepIndex < 0 \/ stepIndex >= Len(steps) THEN <<>>
       ELSE LET step == steps[stepIndex + 1]
                locator == inferLocatorFromFailure(step.type, step.sels, context.mentions)
            IN IF step.type = NoType THEN <<>>
               ELSE IF locator = NoLocator THEN <<>>
               ELSE <<Override(stepIndex, step.type, locator)>>

ReviewInit ==
    /\ AgentIdle
    /\ page = {}
    /\ EvalIdle
    /\ MaskIdle
    /\ GenIdle
    /\ ScoreIdle
    /\ HarnessIdle
    /\ ObsIdle
    /\ reviewPc = "load"
    /\ dryRun \in BOOLEAN
    /\ reviewSteps \in ReviewRecordings
    /\ errorContext \in ErrorContexts
    /\ overridesFile \in ExistingFiles
    /\ existingOverrides = NoFile
    /\ proposed = <<>>
    /\ mergedFile = <<>>
    /\ schemaChecked = FALSE
    /\ validations = <<>>
    /\ reviewOut = <<>>
    /\ reviewAnswer = [kind |-> "none", overrides |-> <<>>]
    /\ reviewRaised = "none"

\* loadExistingOverrides(outputPath): null without a file, an error for a
\* file that fails the schema.
LoadExistingOverrides ==
    /\ reviewPc = "load"
    /\ IF overridesFile.exists /\ ~SchemaValid(overridesFile.overrides)
       THEN /\ reviewPc' = "threw"
            /\ reviewRaised' = "Invalid overrides YAML"
            /\ UNCHANGED existingOverrides
       ELSE /\ reviewPc' = "ask"
            /\ existingOverrides' = overridesFile
            /\ UNCHANGED reviewRaised
    /\ UNCHANGED <<dryRun, reviewSteps, errorContext, overridesFile, proposed, mergedFile,
                   schemaChecked, validations, reviewOut, reviewAnswer,
                   agentVars, evalVars, maskVars, genVars, scoreVars,
                   harnessVars, obsVars>>

\* The model call and what follows it: parseReviewResponse and the
\* validation of the proposal, the heuristic if either fails, the error
\* rethrown if the heuristic has nothing; the heuristic again for an empty
\* proposal.
\* The error of the try block for an answer of the model: of the call, of
\* parseReviewResponse, or of the validation against the recording.
TryError(response, steps) ==
    IF response.kind = "error" THEN "model call failed"
    ELSE IF response.kind = "no JSON" THEN "No parseable JSON object found"
    ELSE IF ~SchemaValid(response.overrides) THEN "failed OverridesFileSchema validation"
    ELSE IF validateOverridesAgainstRecording(response.overrides, steps)
    THEN "Override validation failed"
    ELSE "none"

\* Mutant: without an entry from the heuristic the run goes on with an
\* empty proposal.
Propose_NeverRethrows ==
    /\ reviewPc = "ask"
    /\ \E response \in ReviewResponses :
          LET parsedOk == response.kind = "overrides" /\ SchemaValid(response.overrides)
              err == TryError(response, reviewSteps)
              fallback == suggestOverridesFromFailureContext(reviewSteps, errorContext)
          IN /\ reviewAnswer' = response
             /\ validations' =
                   IF parsedOk
                   THEN Append(validations,
                               Validation(response.overrides, err # "none"))
                   ELSE validations
             /\ reviewPc' = "merge"
             /\ proposed' = IF err # "none" \/ Len(response.overrides) = 0
                             THEN fallback ELSE response.overrides
             /\ UNCHANGED reviewRaised
    /\ UNCHANGED <<dryRun, reviewSteps, errorContext, overridesFile, existingOverrides,
                   mergedFile, schemaChecked, reviewOut,
                   agentVars, evalVars, maskVars, genVars, scoreVars,
                   harnessVars, obsVars>>

Propose ==
    /\ reviewPc = "ask"
    /\ \E response \in ReviewResponses :
          LET parsedOk == response.kind = "overrides" /\ SchemaValid(response.overrides)
              err == TryError(response, reviewSteps)
              fallback == suggestOverridesFromFailureContext(reviewSteps, errorContext)
          IN /\ reviewAnswer' = response
             /\ validations' =
                   IF parsedOk
                   THEN Append(validations,
                               Validation(response.overrides, err # "none"))
                   ELSE validations
             /\ IF err # "none"
                THEN IF Len(fallback) = 0
                     THEN /\ reviewPc' = "threw"
                          /\ reviewRaised' = err
                          /\ UNCHANGED proposed
                     ELSE /\ reviewPc' = "merge"
                          /\ proposed' = fallback
                          /\ UNCHANGED reviewRaised
                ELSE /\ reviewPc' = "merge"
                     /\ proposed' = IF Len(response.overrides) = 0 /\ Len(fallback) > 0
                                     THEN fallback ELSE response.overrides
                     /\ UNCHANGED reviewRaised
    /\ UNCHANGED <<dryRun, reviewSteps, errorContext, overridesFile, existingOverrides,
                   mergedFile, schemaChecked, reviewOut,
                   agentVars, evalVars, maskVars, genVars, scoreVars,
                   harnessVars, obsVars>>

\* Mutant: the merged set is written as it is, without looking at the
\* recording again.
MergeAndValidate_NoRecheck ==
    /\ reviewPc = "merge"
    /\ LET mergedOverrides == mergeOverrideEntries(existingOverrides.overrides, proposed)
       IN IF ~SchemaValid(mergedOverrides)
          THEN reviewPc' = "threw" /\ UNCHANGED <<mergedFile, schemaChecked>>
          ELSE /\ mergedFile' = mergedOverrides
               /\ schemaChecked' = TRUE
               /\ reviewPc' = "persist"
    /\ UNCHANGED <<dryRun, reviewSteps, errorContext, overridesFile, existingOverrides,
                   proposed, validations, reviewOut, reviewAnswer, reviewRaised,
                   agentVars, evalVars, maskVars, genVars, scoreVars,
                   harnessVars, obsVars>>

\* mergeOverrideEntries, OverridesFileSchema.parse, and
\* validateOverridesAgainstRecording on the merged file.
MergeAndValidate ==
    /\ reviewPc = "merge"
    /\ LET mergedOverrides == mergeOverrideEntries(existingOverrides.overrides, proposed)
           threw == validateOverridesAgainstRecording(mergedOverrides, reviewSteps)
       IN IF ~SchemaValid(mergedOverrides)
          THEN /\ reviewPc' = "threw"
               /\ reviewRaised' = "failed OverridesFileSchema validation"
               /\ UNCHANGED <<mergedFile, schemaChecked, validations>>
          ELSE /\ mergedFile' = mergedOverrides
               /\ schemaChecked' = TRUE
               /\ validations' = Append(validations, Validation(mergedOverrides, threw))
               /\ reviewPc' = IF threw THEN "threw" ELSE "persist"
               /\ reviewRaised' = IF threw THEN "Override validation failed" ELSE "none"
    /\ UNCHANGED <<dryRun, reviewSteps, errorContext, overridesFile, existingOverrides,
                   proposed, reviewOut, reviewAnswer,
                   agentVars, evalVars, maskVars, genVars, scoreVars,
                   harnessVars, obsVars>>

\* if (options.dryRun) console.log(formatYaml(mergedFile))
\* else writeFileSync(outputPath, formatYaml(mergedFile)); then return.
Persist ==
    /\ reviewPc = "persist"
    /\ IF dryRun
       THEN reviewOut' = Append(reviewOut, mergedFile) /\ UNCHANGED overridesFile
       ELSE overridesFile' = File(TRUE, mergedFile) /\ UNCHANGED reviewOut
    /\ reviewPc' = "returned"
    /\ UNCHANGED <<dryRun, reviewSteps, errorContext, existingOverrides, proposed,
                   mergedFile, schemaChecked, validations, reviewAnswer, reviewRaised,
                   agentVars, evalVars, maskVars, genVars, scoreVars,
                   harnessVars, obsVars>>

ReviewNext ==
    \/ LoadExistingOverrides
    \/ Propose
    \/ MergeAndValidate
    \/ Persist

ReviewSpec == ReviewInit /\ [][ReviewNext]_vars

----------------------------------------------------------------------------
\* The heuristic on its own: HeuristicSpec draws a recording and a failure
\* text and applies suggestOverridesFromFailureContext once.  It uses the
\* variables of the review run: reviewSteps, errorContext and proposed.

MaxMentions == 2

HeuristicStepKinds ==
    {ReviewStep("click", <<>>),
     ReviewStep("click", <<Sel(TRUE, "Login", "")>>),
     ReviewStep("click", <<Sel(TRUE, "Forgot Password", "link")>>),
     ReviewStep("click", <<Sel(FALSE, "Login", ""), Sel(TRUE, "Login", "Button")>>),
     ReviewStep("hover", <<Sel(TRUE, "login", "")>>),
     ReviewStep("change", <<Sel(TRUE, "Login", "")>>),
     ReviewStep("change", <<>>),
     ReviewStep("waitForElement", <<>>),
     ReviewStep("navigate", <<>>),
     ReviewStep(NoType, <<Sel(TRUE, "Login", "")>>)}
HeuristicRecordings == SeqsUpTo(HeuristicStepKinds, MaxReviewSteps)

MentionPool ==
    {Mention("button", "Login"), Mention("link", "Login"),
     Mention("link", "Forgot Password"), Mention("textbox", "Login"),
     Mention("heading", "Login"), Mention("heading", "Forgot Password")}
HeuristicContexts ==
    {Context(marker, mentions) :
        marker \in {NoMarker, Marker(0, "change")}
                      \cup {Marker(n, "click") : n \in 0..MaxReviewSteps},
        mentions \in SeqsUpTo(MentionPool, MaxMentions)}

HeuristicInit ==
    /\ AgentIdle
    /\ page = {}
    /\ EvalIdle
    /\ MaskIdle
    /\ GenIdle
    /\ ScoreIdle
    /\ HarnessIdle
    /\ ObsIdle
    /\ reviewPc = "suggest"
    /\ dryRun = FALSE
    /\ reviewSteps \in HeuristicRecordings
    /\ errorContext \in HeuristicContexts
    /\ overridesFile = NoFile
    /\ existingOverrides = NoFile
    /\ proposed = <<>>
    /\ mergedFile = <<>>
    /\ schemaChecked = FALSE
    /\ validations = <<>>
    /\ reviewOut = <<>>
    /\ reviewAnswer = [kind |-> "none", overrides |-> <<>>]
    /\ reviewRaised = "none"

\* One call of suggestOverridesFromFailureContext.
SuggestOverrides ==
    /\ reviewPc = "suggest"
    /\ proposed' = suggestOverridesFromFailureContext(reviewSteps, errorContext)
    /\ reviewPc' = "suggested"
    /\ UNCHANGED <<dryRun, reviewSteps, errorContext, overridesFile, existingOverrides,
                   mergedFile, schemaChecked, validations, reviewOut, reviewAnswer,
                   reviewRaised, agentVars, evalVars, maskVars, genVars, scoreVars,
                   harnessVars, obsVars>>

HeuristicNext == SuggestOverrides

HeuristicSpec == HeuristicInit /\ [][HeuristicNext]_vars

----------------------------------------------------------------------------
\* The test harness (tests/agent.spec.ts): one run of HarnessSpec is the
\* body of the test of one test case.  executeStep is taken by its outcome:
\* a result, or an exception.

MaxTestSteps == 3

\* A StepResult as the harness reads it: success, ticksUsed, whether the
\* debug bundle holds an observation, and the number of expectation results.
StepOutcome(success, ticksUsed, hasObservation, nResults) ==
    [success |-> success, ticksUsed |-> ticksUsed, lastObservation |-> hasObservation,
     expectations |-> nResults]
StepOutcomes ==
    {StepOutcome(TRUE, t, FALSE, n) : t \in 1..2, n \in 0..1}
    \cup {StepOutcome(FALSE, 2, o, n) : o \in BOOLEAN, n \in 0..1}

HarnessInit ==
    /\ AgentIdle
    /\ page = {}
    /\ EvalIdle
    /\ MaskIdle
    /\ GenIdle
    /\ ScoreIdle
    /\ ReviewIdle
    /\ ObsIdle
    /\ harnessPc = "goto"
    /\ testSteps \in 0..MaxTestSteps
    /\ runnerPage = "page"
    /\ loopIndex = 0
    /\ stepResults = <<>>
    /\ started = <<>>
    /\ attached = <<>>
    /\ testStatus = "running"

\* await page.goto(testCase.baseUrl, ...): the navigation succeeds or throws.
GotoBaseUrl ==
    /\ harnessPc = "goto"
    /\ \E ok \in BOOLEAN :
          IF ok THEN harnessPc' = "loop" /\ UNCHANGED testStatus
          ELSE harnessPc' = "ended" /\ testStatus' = "threw"
    /\ UNCHANGED <<testSteps, runnerPage, loopIndex, stepResults, started, attached,
                   agentVars, evalVars, maskVars, genVars, scoreVars, reviewVars, obsVars>>

\* for (let i = 0; i < testCase.steps.length; i++): runner.executeStep(step)
\* is called on the page the runner was built with.
CallExecuteStep ==
    /\ harnessPc = "loop"
    /\ loopIndex < testSteps
    /\ started' = Append(started, [step |-> loopIndex, page |-> runnerPage])
    /\ harnessPc' = "executing"
    /\ UNCHANGED <<testSteps, runnerPage, loopIndex, stepResults, attached, testStatus,
                   agentVars, evalVars, maskVars, genVars, scoreVars, reviewVars, obsVars>>

\* The await of executeStep ends with a result: a success goes on with the
\* next step, a failure to the attachments.
ExecuteStepReturns ==
    /\ harnessPc = "executing"
    /\ \E r \in StepOutcomes :
          /\ stepResults' = Append(stepResults, r)
          /\ IF r.success
             THEN harnessPc' = "loop" /\ loopIndex' = loopIndex + 1
             ELSE harnessPc' = "attach" /\ UNCHANGED loopIndex
    /\ UNCHANGED <<testSteps, runnerPage, started, attached, testStatus,
                   agentVars, evalVars, maskVars, genVars, scoreVars, reviewVars, obsVars>>

\* The await of executeStep ends with an exception, which ends the test.
ExecuteStepThrows ==
    /\ harnessPc = "executing"
    /\ harnessPc' = "ended"
    /\ testStatus' = "threw"
    /\ UNCHANGED <<testSteps, runnerPage, loopIndex, stepResults, started, attached,
                   agentVars, evalVars, maskVars, genVars, scoreVars, reviewVars, obsVars>>

\* if (!result.success): the attachments of the failed step.
AttachDebugInfo ==
    /\ harnessPc = "attach"
    /\ LET r == stepResults[Len(stepResults)]
       IN attached' = attached
             \o (IF r.lastObservation THEN <<"aria-snapshot.txt", "debug.json">> ELSE <<>>)
             \o <<"actions.json">>
             \o (IF r.expectations > 0 THEN <<"expectations.json">> ELSE <<>>)
    /\ harnessPc' = "assert"
    /\ UNCHANGED <<testSteps, runnerPage, loopIndex, stepResults, started, testStatus,
                   agentVars, evalVars, maskVars, genVars, scoreVars, reviewVars, obsVars>>

\* Mutant: the assertion is soft and the loop goes on.
FailTest_Soft ==
    /\ harnessPc = "assert"
    /\ harnessPc' = "loop"
    /\ loopIndex' = loopIndex + 1
    /\ testStatus' = "failed"
    /\ UNCHANGED <<testSteps, runnerPage, stepResults, started, attached,
                   agentVars, evalVars, maskVars, genVars, scoreVars, reviewVars, obsVars>>

\* expect(result.success, ...).toBe(true) on a failed step throws.
FailTest ==
    /\ harnessPc = "assert"
    /\ harnessPc' = "ended"
    /\ testStatus' = "failed"
    /\ UNCHANGED <<testSteps, runnerPage, loopIndex, stepResults, started, attached,
                   agentVars, evalVars, maskVars, genVars, scoreVars, reviewVars, obsVars>>

\* After the loop: the summary attachment.
AttachSummary ==
    /\ harnessPc = "loop"
    /\ loopIndex >= testSteps
    /\ attached' = Append(attached, "test-summary.json")
    /\ harnessPc' = "ended"
    /\ testStatus' = "passed"
    /\ UNCHANGED <<testSteps, runnerPage, loopIndex, stepResults, started,
                   agentVars, evalVars, maskVars, genVars, scoreVars, reviewVars, obsVars>>

HarnessNext ==
    \/ GotoBaseUrl
    \/ CallExecuteStep
    \/ ExecuteStepReturns
    \/ ExecuteStepThrows
    \/ AttachDebugInfo
    \/ FailTest
    \/ AttachSummary

HarnessSpec == HarnessInit /\ [][HarnessNext]_vars

----------------------------------------------------------------------------
\* The observation collector (agent/observation.ts): one run of ObsSpec is
\* one call of collectObservation.  A text is taken by its length: the
\* accessibility snapshot is a list of lines, each with its length and
\* whether it holds a keyword of the goal; the body text has its length and
\* the number of characters the whitespace normalisation removes.

MaxLines == 2
MaxLog == 6

Line(len, relevant) == [len |-> len, relevant |-> relevant]
LinePool == {Line(n, r) : n \in {0, 40, 150, 9000}, r \in BOOLEAN}
\* ariaSnapshot() resolves with a text, of one line at least.
Snapshots == SeqsUpTo(LinePool, MaxLines) \ {<<>>}
\* The length of the message of an extraction error.
ErrorLengths == {20, 200}
BodyText(len, blanks) == [len |-> len, blanks |-> blanks]
BodyTexts == {BodyText(n, b) : n \in {0, 15, 30, 3000}, b \in {0, 5}} \ {BodyText(0, 5)}
ObsConfig(ariaCap, textCap, keywords) ==
    [ariaSnapshotMaxChars |-> ariaCap, shortTextMaxChars |-> textCap,
     goalKeywords |-> keywords]
\* The caps: the defaults and smaller ones; goalKeywords is empty or not.
ObsConfigs ==
    {ObsConfig(a, t, k) : a \in {10, 200, 8000}, t \in {10, 20, 2000}, k \in BOOLEAN}

Min(a, b) == IF a <= b THEN a ELSE b

\* The length of text.slice(0, end) for a text of the given length.
SliceLen(len, end) == IF end < 0 THEN Max(len + end, 0) ELSE Min(len, end)

\* The length of lines.join('\n').
RECURSIVE JoinLen(_)
JoinLen(lines) ==
    IF Len(lines) = 0 THEN 0
    ELSE IF Len(lines) = 1 THEN lines[1].len
    ELSE lines[1].len + 1 + JoinLen(Tail(lines))

\* The loop of truncateWithStructure: lines are kept while they fit under
\* maxChars - 50, then the marker '... [truncated]' is pushed.
RECURSIVE KeepLines(_, _, _)
KeepLines(lines, charCount, maxChars) ==
    IF Len(lines) = 0 THEN Max(charCount - 1, 0)
    ELSE IF charCount + lines[1].len + 1 > maxChars - 50 THEN charCount + 15
    ELSE KeepLines(Tail(lines), charCount + lines[1].len + 1, maxChars)

truncateWithStructure(lines, maxChars) ==
    IF JoinLen(lines) <= maxChars THEN JoinLen(lines)
    ELSE KeepLines(lines, 0, maxChars)

\* filterAriaSnapshot: the length of the text it returns.
filterAriaSnapshot(lines, keywords, maxChars) ==
    IF JoinLen(lines) <= maxChars /\ ~keywords THEN JoinLen(lines)
    ELSE IF keywords
    THEN LET relevantLines == SelectSeq(lines, LAMBDA l : l.relevant)
             otherLines == SelectSeq(lines, LAMBDA l : ~l.relevant)
             remaining == maxChars - JoinLen(relevantLines)
             joined == IF remaining > 100 /\ Len(otherLines) > 0
                       THEN JoinLen(relevantLines) + 5
                            + SliceLen(JoinLen(otherLines), remaining - 10)
                       ELSE JoinLen(relevantLines)
         IN SliceLen(joined, maxChars)
    ELSE truncateWithStructure(lines, maxChars)

\* truncateText: the length of the text it returns.
truncateText(body, maxChars) ==
    LET normalized == body.len - body.blanks
    IN IF normalized <= maxChars THEN normalized
       ELSE SliceLen(normalized, maxChars - 20) + 16

\* What the observation holds of a text: where it came from, and its length.
TextOf(source, len) == [source |-> source, len |-> len]
NoText == TextOf("none", 0)

ObsInit ==
    /\ AgentIdle
    /\ page = {}
    /\ EvalIdle
    /\ MaskIdle
    /\ GenIdle
    /\ ScoreIdle
    /\ ReviewIdle
    /\ HarnessIdle
    /\ obsPc = "title"
    /\ obsConfig \in ObsConfigs
    /\ obsLog \in {[i \in 1..n |-> i] : n \in 0..MaxLog}
    /\ obsTick \in 1..2
    /\ ariaSnapshot = NoText
    /\ shortText = NoText
    /\ observation = [kind |-> "none"]

\* const title = await page.title(), outside any try.
GetTitle ==
    /\ obsPc = "title"
    /\ \E ok \in BOOLEAN : obsPc' = IF ok THEN "aria" ELSE "threw"
    /\ UNCHANGED <<obsConfig, obsLog, obsTick, ariaSnapshot, shortText, observation,
                   agentVars, evalVars, maskVars, genVars, scoreVars, reviewVars,
                   harnessVars>>

\* The snapshot, or the text of the error in its place, then
\* filterAriaSnapshot on either.
GetAriaSnapshot ==
    /\ obsPc = "aria"
    /\ \/ \E lines \in Snapshots :
             ariaSnapshot' =
                TextOf("page", filterAriaSnapshot(lines, obsConfig.goalKeywords,
                                                  obsConfig.ariaSnapshotMaxChars))
       \/ \E n \in ErrorLengths, r \in BOOLEAN :
             ariaSnapshot' =
                TextOf("error", filterAriaSnapshot(<<Line(31 + n, r)>>,
                                                   obsConfig.goalKeywords,
                                                   obsConfig.ariaSnapshotMaxChars))
    /\ obsPc' = "text"
    /\ UNCHANGED <<obsConfig, obsLog, obsTick, shortText, observation,
                   agentVars, evalVars, maskVars, genVars, scoreVars, reviewVars,
                   harnessVars>>

\* The body text through truncateText, or the text of the error as it is.
GetShortText ==
    /\ obsPc = "text"
    /\ \/ \E body \in BodyTexts :
             shortText' = TextOf("page", truncateText(body, obsConfig.shortTextMaxChars))
       \/ \E n \in ErrorLengths : shortText' = TextOf("error", 22 + n)
    /\ obsPc' = "return"
    /\ UNCHANGED <<obsConfig, obsLog, obsTick, ariaSnapshot, observation,
                   agentVars, evalVars, maskVars, genVars, scoreVars, reviewVars,
                   harnessVars>>

\* return { ..., previousActions: previousActions.slice(-5), tickNumber }
ReturnObservation ==
    /\ obsPc = "return"
    /\ observation' = [kind |-> "observation", ariaSnapshot |-> ariaSnapshot,
                       shortText |-> shortText,
                       previousActions |-> LastN(obsLog, HistoryWindow),
                       tickNumber |-> obsTick]
    /\ obsPc' = "returned"
    /\ UNCHANGED <<obsConfig, obsLog, obsTick, ariaSnapshot, shortText,
                   agentVars, evalVars, maskVars, genVars, scoreVars, reviewVars,
                   harnessVars>>

ObsNext ==
    \/ GetTitle
    \/ GetAriaSnapshot
    \/ GetShortText
    \/ ReturnObservation

ObsSpec == ObsInit /\ [][ObsNext]_vars

----------------------------------------------------------------------------
\* Vocabulary of the properties

Returned == pc = "returned"

\* The entries of the action log written by executeAction.
MutatingEntries == {i \in 1..Len(actions) : actions[i].action.type \in MutatingTypes}

EveryPassed(results) == \A i \in DOMAIN results : results[i].passed

\* The model call of the current tick has been made.
PastModelCall ==
    pc \in {"llm_pending", "parse", "dispatch", "delay", "load_wait", "check"}

----------------------------------------------------------------------------
\* C1: with maxTicksPerStep = N, executeStep never starts a tick numbered
\* above N and never makes more than N model calls; each started tick makes
\* exactly one call: before the call of tick t there have been t - 1 calls,
\* from the call on there have been t, and when the loop has ended there has
\* been one call per tick started.
C1_TickBudget ==
    /\ tick <= maxTicksPerStep
    /\ llmCalls <= maxTicksPerStep
    /\ pc \in {"observe", "model_call"} => llmCalls = tick - 1
    /\ PastModelCall => llmCalls = tick
    /\ pc \in {"start", "final_eval", "returned"} => llmCalls = tick
    /\ pc = "threw" => llmCalls \in {tick - 1, tick}

\* A step that used its whole budget of MaxTicksBound ticks.
C1_Witness ==
    /\ Returned
    /\ exit = "exhausted"
    /\ maxTicksPerStep = MaxTicksBound
    /\ llmCalls = MaxTicksBound

\* C2: when the budget is exhausted, ticksUsed = N; the result is a success
\* iff the step declared no expectation; with at least one expectation it is
\* a failure whose error names the exceeded tick budget and which carries the
\* debug bundle of tick N.
C2_Exhaustion ==
    exit = "exhausted" =>
        /\ Returned
        /\ tick = maxTicksPerStep
        /\ result.ticksUsed = maxTicksPerStep
        /\ nExp = 0 => result.success /\ result.error = Undefined
        /\ nExp > 0 =>
            /\ ~result.success
            /\ result.error = "Max ticks exceeded"
            /\ Len(result.expectations) = nExp
            /\ maxTicksPerStep >= 1 =>
                /\ result.debugInfo.present
                /\ result.debugInfo.lastObservation.tickNumber = maxTicksPerStep
                /\ result.debugInfo.lastError = lastError
                /\ result.debugInfo.lastLLMResponse = lastLLMResponse

\* Budget exhausted with a declared expectation that is unmet.
C2_Witness ==
    /\ exit = "exhausted"
    /\ maxTicksPerStep = MaxTicksBound
    /\ nExp > 0
    /\ ~EveryPassed(result.expectations)
    /\ ~result.success

\* C3: for a step with expectations, a success is returned at tick t exactly
\* when t is the first tick whose mutating action was followed by a check in
\* which every expectation passed: a success comes from that check only, has
\* ticksUsed = t with 1 <= t <= N, ends the run with t model calls and no
\* page action after the one of tick t, and no check that passed is ever
\* followed by anything but that return.
C3_SuccessAtFirstPass ==
    /\ (nExp > 0 /\ Returned /\ result.success) =>
        /\ exit = "success"
        /\ result.ticksUsed = tick
        /\ 1 <= tick /\ tick <= maxTicksPerStep
        /\ Len(result.expectations) = nExp
        /\ EveryPassed(result.expectations)
        /\ \A f \in Expectations : f \in page
        /\ Len(actions) >= 1
        /\ actions[Len(actions)].action.type \in MutatingTypes
        /\ result.actions = actions
        /\ llmCalls = tick
        /\ execCalls = Cardinality(MutatingEntries)
        /\ stepChecks <= tick
    /\ checkPassed => (Returned /\ exit = "success")
    /\ (nExp > 0 /\ pc \notin {"delay", "load_wait", "check", "threw"}) =>
           stepChecks = Cardinality(MutatingEntries)

\* Success at tick 2, after a first tick whose check did not pass.
C3_Witness ==
    /\ Returned
    /\ exit = "success"
    /\ nExp = MaxExp
    /\ result.ticksUsed = 2
    /\ stepChecks = 2

\* C4: a fail action ends executeStep at once: success = false, ticksUsed = t,
\* the give-up error, the debug bundle of tick t; it is not executed on the
\* page, not appended to the action log, and no tick or model call follows.
C4_FailAction ==
    exit = "fail" =>
        /\ Returned
        /\ ~result.success
        /\ result.ticksUsed = tick
        /\ result.error = "Agent gave up"
        /\ result.expectations = <<>>
        /\ result.debugInfo.present
        /\ result.debugInfo.lastObservation.tickNumber = tick
        /\ result.debugInfo.lastLLMResponse.action.type = "fail"
        /\ result.debugInfo.lastError = lastError
        /\ result.actions = actions
        /\ \A i \in 1..Len(actions) : actions[i].action.type # "fail"
        /\ Len(actions) <= tick - 1
        /\ execCalls = Cardinality(MutatingEntries)
        /\ llmCalls = tick

\* The model gives up at tick 2, after one logged action.
C4_Witness ==
    /\ exit = "fail"
    /\ result.ticksUsed = 2
    /\ Len(result.actions) = 1

\* `continue` seen from outside: the tick is used up and the next one starts,
\* or the loop is left when the tick was the last.
TickConsumed ==
    IF tick < maxTicksPerStep
    THEN pc' = "observe" /\ tick' = tick + 1
    ELSE pc' = "final_eval" /\ tick' = tick

LogGrowsByOne == Len(actions') = Len(actions) + 1 /\ SubSeq(actions', 1, Len(actions)) = actions

\* C5: an assert action leaves the page alone and does not end the step: it
\* appends one log entry whose success flag is the outcome of evaluating the
\* named expectation, sets lastError to the failure or to null, and goes on to
\* the next tick without executing anything and without the step's own check.
C5_AssertOnlyVerifies ==
    [][(pc = "dispatch" /\ action.type = "assert") =>
          /\ page' = page /\ pageOps' = pageOps /\ execCalls' = execCalls
          /\ stepChecks' = stepChecks /\ checkPassed' = checkPassed
          /\ result' = result /\ exit' = exit /\ llmCalls' = llmCalls
          /\ TickConsumed
          /\ LogGrowsByOne
          /\ LET e == actions'[Len(actions')]
             IN /\ e.action = action
                /\ e.success => (action.fact \in page /\ e.error = Undefined /\ lastError' = Null)
                /\ ~e.success => /\ e.error \in {"not met", "Evaluation error"}
                                 /\ lastError' = e.error
                                 /\ e.error = "not met" => action.fact \notin page]_vars

\* Tick 1 asserted a fact that holds; tick 2 has started.
C5_Witness ==
    /\ pc = "observe"
    /\ tick = 2
    /\ Len(actions) = 1
    /\ actions[1].action.type = "assert"
    /\ actions[1].success
    /\ lastError = Null

ParseErrors ==
    {"Parse error: no JSON object", "Parse error: invalid JSON", "Parse error: schema"}

NothingExecuted ==
    /\ actions' = actions /\ page' = page /\ pageOps' = pageOps
    /\ execCalls' = execCalls /\ stepChecks' = stepChecks
    /\ result' = result /\ exit' = exit

\* C6: a tick whose model call throws, or whose response fails extraction or
\* validation, executes nothing, logs nothing, checks nothing, sets lastError
\* to the call or parse error, is used up, and is followed by the next tick
\* without a second model call.
C6_FailedCallOrParse ==
    [][/\ (pc \in {"model_call", "llm_pending"} /\ pc' \notin {"parse", "llm_pending"}) =>
             /\ NothingExecuted
             /\ lastError' \in {"LLM error", "LLM error: timed out"}
             /\ lastLLMResponse' = lastLLMResponse
             /\ TickConsumed
       /\ (pc = "parse" /\ lastLLMResponse.shape \in MalformedShapes) =>
             /\ NothingExecuted
             /\ lastError' \in ParseErrors
             /\ llmCalls' = llmCalls
             /\ TickConsumed]_vars

\* Tick 1 got an unparseable response; tick 2 has started with nothing logged.
C6_Witness ==
    /\ pc = "observe"
    /\ tick = 2
    /\ lastError = "Parse error: invalid JSON"
    /\ malformedTicks = 1
    /\ actions = <<>>
    /\ llmCalls = 1

\* Every tick of the exhausted budget got a malformed response.
AllTicksMalformed ==
    exit = "exhausted" /\ maxTicksPerStep >= 1 /\ malformedTicks = maxTicksPerStep

\* C7 as stated: malformed text on every tick until exhaustion gives a failure
\* whose error mentions the tick budget, with an empty action log.
C7_AsStated ==
    AllTicksMalformed =>
        /\ ~result.success
        /\ result.error = "Max ticks exceeded"
        /\ result.actions = <<>>

\* C7, amended: malformed text on every tick until exhaustion leaves the
\* action log empty and nothing executed; the result is the failure naming the
\* tick budget when the step declares at least one expectation, and a success
\* without error when it declares none.
C7_MalformedEveryTick ==
    AllTicksMalformed =>
        /\ result.actions = <<>>
        /\ execCalls = 0 /\ pageOps = 0 /\ stepChecks = 0
        /\ result.ticksUsed = maxTicksPerStep
        /\ nExp > 0 => ~result.success /\ result.error = "Max ticks exceeded"
        /\ nExp = 0 => result.success /\ result.error = Undefined

C7_Witness ==
    /\ AllTicksMalformed
    /\ maxTicksPerStep = MaxTicksBound
    /\ nExp > 0
    /\ ~result.success

\* C8: a mutating action is always logged; when its element is not found or
\* its page operation throws, the entry has success = false and an error,
\* which becomes lastError and reaches the next observation; the step goes on
\* to the post-action delay, the load-state wait and the expectation check,
\* which runs whenever expectations are declared, and then to the next tick
\* unless that check passed.  The failed action never ends the step; the only
\* way out between the action and the check is the rejection of the delay
\* itself, which is the subject of C9.
C8_FailedActionIsLocal ==
    [][/\ (pc = "dispatch" /\ action.type \in MutatingTypes) =>
             /\ LogGrowsByOne
             /\ LET e == actions'[Len(actions')]
                IN /\ e.action = action
                   /\ e.success <=> e.error = Undefined
                   /\ e.success => lastError' = Null
                   /\ ~e.success => /\ e.error \in {"Locator not found", "Action failed"}
                                    /\ lastError' = e.error
                   /\ e.error = "Locator not found" =>
                         (action.type \in {"click", "fill"} /\ pageOps' = pageOps /\ page' = page)
             /\ pc' = "delay" /\ tick' = tick
             /\ result' = result /\ exit' = exit
       /\ pc \in {"delay", "load_wait"} =>
             /\ actions' = actions /\ lastError' = lastError /\ result' = result
             /\ pc' \in {"load_wait", "check"} \/ (pc = "delay" /\ pc' = "threw")
       /\ pc = "check" =>
             /\ actions' = actions /\ lastError' = lastError
             /\ nExp > 0 => stepChecks' = stepChecks + 1
             /\ IF checkPassed' THEN pc' = "returned" ELSE TickConsumed /\ result' = result
       /\ (pc = "observe" /\ pc' = "model_call") =>
             /\ lastObservation'.lastError = lastError
             /\ lastObservation'.previousActions = actions]_vars

\* Tick 1 clicked an element that was not found; the check ran and tick 2
\* observed the error.
C8_Witness ==
    /\ pc = "model_call"
    /\ tick = 2
    /\ Len(actions) = 1
    /\ actions[1].action.type = "click"
    /\ ~actions[1].success
    /\ actions[1].error = "Locator not found"
    /\ stepChecks = 1
    /\ lastObservation.lastError = "Locator not found"

\* C9: no failure of a per-tick operation leaves executeStep as an exception.
C9_NoExceptionEscapes == pc # "threw"

\* C10: when every awaited operation settles, executeStep ends with a
\* StepResult, and only a fail action, a passed check or the exhausted budget
\* ends the loop.
C10_TerminatesWithResult ==
    <>(pc = "returned" /\ exit \in {"fail", "success", "exhausted"})

----------------------------------------------------------------------------
\* C11: evaluateAllExpectations evaluates every expectation of the list, also
\* after a failed one; it returns one result per expectation in declaration
\* order; allPassed is true iff every result passed; and it never throws: an
\* error raised while evaluating an expectation gives a failed result that
\* carries an error message.
C11_EvaluatesAll ==
    /\ evalPc \in {"loop", "every", "returned"}
    /\ evalPc \in {"every", "returned"} =>
          /\ Len(evalResults) = Len(evalExpectations)
          /\ \A i \in 1..Len(evalResults) :
                /\ evalResults[i].expectation = evalExpectations[i]
                /\ evalResults[i].passed <=>
                      (evalExpectations[i] \in page /\ i \notin evalRaised)
                /\ i \in evalRaised =>
                      /\ ~evalResults[i].passed
                      /\ evalResults[i].error \notin {Undefined, Null}
    /\ evalPc = "returned" =>
          (evalAllPassed <=> \A i \in 1..Len(evalExpectations) :
                                evalResults[i].passed)

\* A call that returned after an expectation failed by a raised error and a
\* later one was still evaluated, and passed.
C11_Witness ==
    /\ evalPc = "returned"
    /\ ~evalAllPassed
    /\ \E i, j \in 1..Len(evalResults) :
          /\ i < j
          /\ i \in evalRaised
          /\ evalResults[j].passed

----------------------------------------------------------------------------
\* Masking of the goal text

\* The positions of a text that hold a reference ${ENV.name}.
RefPositions(text) == {i \in 1..Len(text) : text[i].kind = "ref"}

\* The positions of the declared goal whose reference was given a value.
ResolvedPositions == {i \in RefPositions(stepGoal) : goal[i] # stepGoal[i]}

\* Two runs differ only in the values of the variables: the same names are
\* bound in both.
SameNamesBound(vs, e) ==
    \A n \in Names :
       /\ (vs[n] = Undefined) <=> (variables[n] = Undefined)
       /\ (e[n] = Undefined) <=> (env[n] = Undefined)

\* C12: the goal executeStep logs holds no resolved variable value: every
\* reference of the declared goal is shown as the mask token, and a run that
\* differs only in the values of the variables logs the same goal; the
\* prompt and the fill text hold the real values.
C12_LoggedGoalHidesValues ==
    /\ maskPc \in {"prompt", "fill", "done"} =>
          /\ \A i \in RefPositions(stepGoal) : loggedGoal[i] = Text(MaskToken)
          /\ \A i \in 1..Len(loggedGoal) : loggedGoal[i].v \notin Values
          /\ \A vs \in Bindings, e \in Bindings :
                SameNamesBound(vs, e) =>
                   maskSecrets(interpolateWith(stepGoal, vs, e)) = loggedGoal
    /\ maskPc \in {"fill", "done"} => promptGoal = interpolateVariables(stepGoal)
    /\ maskPc = "done" =>
          \A i \in RefPositions(filledText) :
             variables[filledText[i].v] = Undefined /\ env[filledText[i].v] = Undefined

\* C13: masking is total.  maskSecrets replaces every reference ${ENV.name}
\* of a goal by [MASKED] and leaves the rest alone, so that the masked goal
\* holds no reference and no value of a variable: every position that
\* interpolation fills with a value is a position the masked goal shows as
\* [MASKED].
C13_MaskingTotal ==
    /\ maskPc # "harness" =>
          /\ Len(harnessLog) = Len(stepGoal)
          /\ \A i \in 1..Len(stepGoal) :
                harnessLog[i] = IF stepGoal[i].kind = "ref" THEN Text(MaskToken)
                                ELSE stepGoal[i]
          /\ RefPositions(harnessLog) = {}
          /\ \A i \in 1..Len(harnessLog) : harnessLog[i].v \notin Values
    /\ maskPc \in {"log", "prompt", "fill", "done"} =>
          \A i \in ResolvedPositions : harnessLog[i] = Text(MaskToken)

\* A goal with two references, both given a value when the step runs, and
\* both masked in the log of the harness.
C13_Witness ==
    /\ maskPc = "done"
    /\ Cardinality(ResolvedPositions) >= 2
    /\ \E i \in 1..Len(stepGoal) : stepGoal[i].kind = "text"
    /\ \A i \in ResolvedPositions : goal[i].v \in Values /\ harnessLog[i].v = MaskToken

----------------------------------------------------------------------------
\* The recording generator

GenEnded == genPc \in {"returned", "threw", "exited"}

\* The file read last, and whether it held a recording.
CurrentFile == recordingFiles[filesDone]
Generated == filesDone > 0 /\ recording.kind = "recording"

StepIndices == 0..(Len(recording.steps) - 1)
StepAt(i) == recording.steps[i + 1]

\* The block written for step i of the recording read last.
BlockOf(i) ==
    specLines[CHOOSE k \in 1..Len(specLines) :
                 specLines[k].kind = "step" /\ specLines[k].index = i]

\* The entries of the override sidecar for step i and its type.
MatchingOverrides(i) ==
    {k \in 1..Len(recording.overrides) :
        /\ recording.overrides[k].step = i
        /\ recording.overrides[k].action = StepAt(i).type}

\* Step i of the recording read last is in the brittleness report.
Reported(i) ==
    \E k \in 1..Len(brittleSelectors) :
       brittleSelectors[k].recording = recording.title /\ brittleSelectors[k].step = i

\* The scorer was run for step i of the recording read last, which has no
\* override, and its choice is brittle.
ScorerChoseBrittle(i) ==
    /\ MatchingOverrides(i) = {}
    /\ ~LacksSelectors(StepAt(i))
    /\ selectBestSelector(StepAt(i).selectors).brittle

\* C14: with strict mode on, a run in which the scorer's brittle choice was
\* used for some step without override ends with a non-zero exit after
\* every such step was listed with its recording, index, type and reason;
\* with strict mode off the same list is printed and the run returns
\* normally with the brittle list.
C14_StrictGate ==
    /\ (GenEnded /\ Generated) =>
          \A i \in StepIndices :
             ScorerChoseBrittle(i) =>
                /\ \E k \in 1..Len(printed) :
                      /\ printed[k].recording = recording.title
                      /\ printed[k].step = i
                      /\ printed[k].type = StepAt(i).type
                      /\ printed[k].reason = selectBestSelector(StepAt(i).selectors).reason
                /\ genPc = IF STRICT_SELECTORS THEN "exited" ELSE "returned"
    /\ (GenEnded /\ Len(brittleSelectors) > 0) =>
       /\ Len(printed) = Len(brittleSelectors)
       /\ \A k \in 1..Len(brittleSelectors) :
             /\ printed[k].recording = brittleSelectors[k].recording
             /\ printed[k].step = brittleSelectors[k].step
             /\ printed[k].type = brittleSelectors[k].type
             /\ printed[k].reason = brittleSelectors[k].selector.reason
       /\ STRICT_SELECTORS => genPc = "exited" /\ genResult.exitCode # 0
       /\ ~STRICT_SELECTORS =>
             /\ genPc = "returned"
             /\ genResult.exitCode = 0
             /\ genResult.brittleSelectors = brittleSelectors
             /\ genResult.filesWritten = filesWritten

\* A strict run that failed after listing the brittle steps of two recordings.
C14_Witness ==
    /\ genPc = "exited"
    /\ STRICT_SELECTORS
    /\ Generated
    /\ \E i \in StepIndices : ScorerChoseBrittle(i)
    /\ \E j, k \in 1..Len(printed) : printed[j].recording # printed[k].recording

\* C15: every step of a valid trace whose generated locator is the scorer's
\* choice (no matching override) and is brittle is in the brittleness
\* report, the fallback to the body locator of a step without usable
\* selector alternatives included.
C15_BrittleAlwaysReported ==
    Generated =>
       \A i \in StepIndices :
          (/\ MatchingOverrides(i) = {}
           /\ BlockOf(i).locator # NoCode
           /\ selectBestSelector(StepAt(i).selectors).brittle) => Reported(i)

\* C16: without any recording file generate() returns empty lists and
\* writes nothing; with files of which none is a valid trace it throws an
\* error that lists every rejected file with its reason, the HAR message for
\* a network export, and writes no script.
C16_NoFilesOrNoneValid ==
    GenEnded =>
       /\ Len(recordingFiles) = 0 =>
             /\ genResult.kind = "return"
             /\ genResult.exitCode = 0
             /\ genResult.filesWritten = <<>>
             /\ genResult.brittleSelectors = <<>>
             /\ outputDir = {}
       /\ (Len(recordingFiles) > 0 /\ Len(filesWritten) = 0) =>
             /\ genResult.kind = "throw"
             /\ genResult.exitCode # 0
             /\ Len(genResult.rejected) = Len(recordingFiles)
             /\ \A k \in 1..Len(recordingFiles) :
                   /\ genResult.rejected[k].file = recordingFiles[k]
                   /\ genResult.rejected[k].reason \in InvalidKinds
             /\ genResult.rejected[Len(recordingFiles)].reason = recording.kind
             /\ outputDir = {}

\* A run over two files, the last a network export, none valid.
C16_Witness ==
    /\ genPc = "threw"
    /\ Len(recordingFiles) = 2
    /\ recording.kind = "HAR detected"
    /\ genResult.rejected[1].reason # "HAR detected"

\* C17: every rejected trace file is reported with its name and reason,
\* also in a run where another trace is valid, and the rejection does not
\* stop the sibling traces from being generated.
C17_RejectionsReported ==
    GenEnded =>
       /\ \A k \in 1..Len(invalidRecordings) :
             \E j \in 1..Len(genResult.rejected) :
                genResult.rejected[j] = invalidRecordings[k]
       /\ Len(invalidRecordings) + Len(filesWritten) = Len(recordingFiles)

\* An override entry or an assertion entry of the recording read last names
\* a step that does not exist or, for an override, a step of another type.
BadOverride(o) == o.step \notin StepIndices \/ StepAt(o.step).type # o.action
BadReference ==
    \/ \E k \in 1..Len(recording.overrides) : BadOverride(recording.overrides[k])
    \/ \E k \in 1..Len(recording.assertions) :
          recording.assertions[k].afterStep \notin StepIndices

\* C18: a sidecar entry whose step does not exist, or whose action differs
\* from the type of the step, is a validation error of the generation and
\* is not silently ignored: the recording is reported, not written as if
\* the entry were absent.
C18_BadReferenceIsAnError ==
    (Generated /\ BadReference) =>
       \E k \in 1..Len(invalidRecordings) : invalidRecordings[k].file = CurrentFile

\* The trace [navigate, click] of the scenario, with the ARIA and the CSS
\* alternative.
ScenarioSteps ==
    <<Step("navigate", FALSE, <<>>), Step("click", TRUE, <<<<AriaLogin>>, <<CssBtn>>>>)>>

ScenarioWith(stepIndex) ==
    /\ Generated
    /\ recording.steps = ScenarioSteps
    /\ recording.overrides = <<Override(stepIndex, "click", BtnLocator)>>

\* C19 as stated: the override {step: 0, action: click, css .btn} on the
\* trace [navigate, click] makes the generated click use .btn.
C19_AsStated == ScenarioWith(0) => BlockOf(1).locator = Code("locator", ".btn")

\* C19: the override {step: 1, action: click, css .btn}, the click being
\* step 1 of the trace [navigate, click], makes the generated click use .btn
\* verbatim and not the ARIA selector the scorer prefers; it is not in the
\* brittleness report.
C19_OverrideAtClickIndex ==
    ScenarioWith(1) =>
       /\ BlockOf(1).locator = Code("locator", ".btn")
       /\ BlockOf(1).locator # selectBestSelector(StepAt(1).selectors).code
       /\ ~Reported(1)

C19_Witness ==
    /\ ScenarioWith(1)
    /\ selectBestSelector(StepAt(1).selectors).code = Code("getByRole", "Login")
    /\ BlockOf(1).template = "click"

\* C20: for every step i of a valid trace whose generated code addresses an
\* element: with an override entry for (i, type of i) the locator is the
\* code of that entry's descriptor and the step is not in the brittleness
\* report; without one the locator is the code of selectBestSelector's result
\* for the step's selectors.
C20_OverrideOrScorer ==
    Generated =>
       \A i \in StepIndices :
          BlockOf(i).locator # NoCode =>
             IF MatchingOverrides(i) # {}
             THEN /\ \E k \in MatchingOverrides(i) :
                        BlockOf(i).locator =
                           locatorOverrideToCode(recording.overrides[k].locator)
                  /\ ~Reported(i)
             ELSE BlockOf(i).locator = selectBestSelector(StepAt(i).selectors).code

\* A recording whose first click has an override while the scorer would
\* have chosen a brittle selector, followed by a click left to the scorer.
C20_Witness ==
    /\ Generated
    /\ Len(recording.steps) = 2
    /\ MatchingOverrides(0) # {}
    /\ selectBestSelector(StepAt(0).selectors).brittle
    /\ BlockOf(0).locator = Code("locator", ".btn")
    /\ MatchingOverrides(1) = {}
    /\ BlockOf(1).locator = Code("getByRole", "Login")

\* The positions of the step blocks in the script of the recording read last.
StepBlockPositions == {k \in 1..Len(specLines) : specLines[k].kind = "step"}

\* The valid traces of the run so far: every file read that was not rejected.
ValidTraces == filesDone - Len(invalidRecordings)

\* C21: a run over N valid traces leaves N distinct generated scripts; the
\* script of a trace holds one block per step, in recorded order, numbered
\* 0..n-1 and of the step's type, and a step of an unrecognised type becomes
\* an inert placeholder instead of failing the run.
C21_OneScriptPerTrace ==
    /\ Cardinality(outputDir) = ValidTraces
    /\ Generated =>
          /\ Cardinality(StepBlockPositions) = Len(recording.steps)
          /\ \A i \in StepIndices :
                /\ BlockOf(i).type = StepAt(i).type
                /\ BlockOf(i).template =
                      IF StepAt(i).type \in KnownTypes THEN StepAt(i).type
                      ELSE "unsupported"
                /\ StepAt(i).type \notin KnownTypes => BlockOf(i).locator = NoCode
          /\ \A j, k \in StepBlockPositions :
                j < k => specLines[j].index < specLines[k].index

\* The entry at position k of the assertion sidecar is in the script: a
\* block of its checks, in their order, between the block of its step and
\* the block of the next step.
Injected(k) ==
    LET entry == recording.assertions[k]
    IN \E p \in 1..Len(specLines) :
          /\ specLines[p].kind = "assert"
          /\ specLines[p].index = entry.afterStep
          /\ specLines[p].expect = entry.expect
          /\ \E q \in StepBlockPositions :
                /\ specLines[q].index = entry.afterStep
                /\ q < p
                /\ \A r \in StepBlockPositions : r > q => r > p

\* C22: every entry of the assertion sidecar whose afterStep is a step of
\* the recording has its expectation checks in the generated script, in
\* sidecar order, after the block of that step and before the block of the
\* next step; no such entry is dropped.
C22_EveryAssertionInjected ==
    Generated =>
       \A k \in 1..Len(recording.assertions) :
          recording.assertions[k].afterStep \in StepIndices => Injected(k)

----------------------------------------------------------------------------
\* The selector scorer

\* The call made last, and the selectors it read: the first entry of every
\* alternative that has one.
ScoreCalled == Len(scoreCalls) > 0
LastCall == scoreCalls[Len(scoreCalls)]
FirstEntries(selectors) ==
    {selectors[i][1] : i \in {j \in 1..Len(selectors) : Len(selectors[j]) > 0}}

\* The scored candidates of the call made last.
Scores == {sortedCandidates[i] : i \in 1..Len(sortedCandidates)}

IsPlainCss(raw) == raw.form = "css"
IsMultiClassCss(raw) == raw.form = "css" /\ raw.classes >= 2

\* C23: in every call, an ARIA role+name selector scores strictly higher
\* than any plain CSS selector and a data-testid attribute selector strictly
\* higher than any bare multi-class CSS selector, and selectBestSelector does
\* not return the CSS selector when the other one is among the alternatives.
C23_AriaAndTestIdBeatCss ==
    ScoreCalled =>
       \A a, c \in Scores :
          \/ a.raw.form = "aria_role" /\ IsPlainCss(c.raw)
          \/ a.raw.form = "testid" /\ IsMultiClassCss(c.raw)
          => /\ a.score > c.score
             /\ LastCall.returned.raw # c.raw
             /\ LastCall.returned.raw.form # "css"

\* A multi-class CSS selector without any penalty listed before a
\* data-testid selector, and the data-testid selector returned.
C23_Witness ==
    /\ ScoreCalled
    /\ Len(LastCall.selectors) = 2
    /\ \A i \in 1..2 : Len(LastCall.selectors[i]) = 1
    /\ IsMultiClassCss(LastCall.selectors[1][1])
    /\ \E c \in Scores : c.raw = LastCall.selectors[1][1] /\ c.score = 60
    /\ LastCall.selectors[2][1].form = "testid"
    /\ LastCall.returned.code = Code("getByTestId", "login-btn")

\* C24 as stated: every selector that contains nth-child or nth-of-type is
\* scored brittle, and every ARIA role+name selector is scored not brittle.
C24_AsStated ==
    \A c \in Scores :
       /\ c.raw.nth => c.brittle
       /\ c.raw.form = "aria_role" => ~c.brittle

\* C24: every selector that is scored as a generic CSS selector (not a lone
\* #id, not a data-test attribute, no ARIA or text prefix) and contains
\* nth-child or nth-of-type is scored brittle, and so is every XPath
\* selector; every ARIA role+name selector is scored not brittle.
C24_NthCssBrittle ==
    \A c \in Scores :
       /\ (c.raw.nth /\ c.raw.form \in {"css", "xpath"}) => c.brittle
       /\ c.raw.form = "aria_role" => ~c.brittle

\* A call on a CSS selector with nth-child and no other penalty, next to an
\* ARIA role+name selector.
C24_Witness ==
    /\ ScoreCalled
    /\ \E c \in Scores :
          /\ c.raw.form = "css" /\ c.raw.nth
          /\ c.raw.combinators <= 3 /\ c.raw.classes <= 3 /\ ~c.raw.generated
          /\ c.brittle /\ c.score = 35
    /\ \E a \in Scores : a.raw.form = "aria_role" /\ ~a.brittle /\ a.score = 100

\* The scores of the candidates of a list, in the order of the list.
ListedScores(selectors) ==
    LET listed == Candidates(selectors) IN [i \in 1..Len(listed) |-> listed[i].score]

\* C25: every call on a list with a non-empty alternative returns the
\* scored first entry of an alternative; no candidate scores higher, and
\* every alternative listed before the first one that parses to the value
\* returned scores strictly lower.
C25_MaximalAndEarliest ==
    \A k \in 1..Len(scoreCalls) :
       LET listed == Candidates(scoreCalls[k].selectors)
           returned == scoreCalls[k].returned
       IN Len(listed) > 0 =>
             \E i \in 1..Len(listed) :
                /\ returned = listed[i]
                /\ \A j \in 1..Len(listed) :
                      /\ listed[j].score <= returned.score
                      /\ j < i => listed[j].score < returned.score

\* Three candidates: a lower score first, then two of equal, maximal score
\* that differ; the middle one is returned.
C25_Witness ==
    /\ ScoreCalled
    /\ ListedScores(LastCall.selectors) = <<35, 60, 60>>
    /\ Candidates(LastCall.selectors)[2] # Candidates(LastCall.selectors)[3]
    /\ LastCall.returned = Candidates(LastCall.selectors)[2]

\* The rank of a selector in the documented priority: ARIA role+name, text
\* content, data-testid, stable #id, raw CSS; 0 for what the table leaves out.
DocumentedRank(raw) ==
    CASE raw.form = "aria_role" -> 5
      [] raw.form = "text" -> 4
      [] raw.form = "testid" -> 3
      [] raw.form = "id" -> 2
      [] raw.form = "css" -> 1
      [] OTHER -> 0

\* C26: when the alternatives of a call hold selectors of two types of the
\* documented priority (ARIA role+name over text content over data-testid
\* over stable #id over raw CSS), the selector returned is not the one of
\* the lower priority.
C26_DocumentedPriority ==
    ScoreCalled =>
       \A hi, lo \in FirstEntries(LastCall.selectors) :
          (DocumentedRank(lo) > 0 /\ DocumentedRank(hi) > DocumentedRank(lo))
             => LastCall.returned.raw # lo

\* C27: a call on a list without alternatives, or with empty alternatives
\* only, returns the fallback: the body locator, score 0, brittle, reason
\* 'no selectors provided'.
C27_EmptyYieldsFallback ==
    \A k \in 1..Len(scoreCalls) :
       FirstEntries(scoreCalls[k].selectors) = {} =>
          /\ scoreCalls[k].returned.code = Code("locator", "body")
          /\ scoreCalls[k].returned.score = 0
          /\ scoreCalls[k].returned.brittle
          /\ scoreCalls[k].returned.reason = "no selectors provided"

\* A call on a list of two empty alternatives, after a call on another list
\* that returned a selector.
C27_Witness ==
    /\ Len(scoreCalls) = 2
    /\ scoreCalls[1].selectors = OtherSelectors
    /\ scoreCalls[1].returned.score > 0
    /\ scoreCalls[2].selectors = <<<<>>, <<>>>>
    /\ scoreCalls[2].returned.raw.text = "body"

----------------------------------------------------------------------------
\* The override reviewer

ReviewStepIndices == 0..(Len(reviewSteps) - 1)

\* The entry names a step that does not exist, or a step whose recorded
\* type is not the action of the entry.
Mismatched(entry) ==
    entry.step \notin ReviewStepIndices \/ reviewSteps[entry.step + 1].type # entry.action

MergedValidated ==
    /\ schemaChecked
    /\ mergedFile = mergeOverrideEntries(existingOverrides.overrides, proposed)
    /\ Len(validations) > 0
    /\ validations[Len(validations)] = Validation(mergedFile, FALSE)

\* C30: the overrides file changes only in the step that writes the merged
\* set of the existing and the proposed entries, after that set passed the
\* schema and validateOverridesAgainstRecording, and not in a dry run; a step
\* that ends the run with an error (a validation that fails, no proposal
\* from the model or the heuristic) and every step of a dry run leave the
\* file as it was.
C30_WriteOnlyAfterValidation ==
    [][/\ overridesFile' # overridesFile =>
             /\ reviewPc = "persist"
             /\ ~dryRun
             /\ MergedValidated
             /\ overridesFile' = File(TRUE, mergedFile)
       /\ (dryRun \/ reviewPc' = "threw") => overridesFile' = overridesFile]_vars

\* A run that replaced one of the two entries of the existing file and
\* wrote the merged file, sorted by step.
C30_Witness ==
    /\ reviewPc = "returned"
    /\ ~dryRun
    /\ Len(existingOverrides.overrides) = 2
    /\ overridesFile # existingOverrides
    /\ Len(overridesFile.overrides) = 2
    /\ overridesFile.overrides[1] = Override(0, "click", NewLocator)
    /\ overridesFile.overrides[2] = Override(1, "click", OldLocator)
    /\ MergedValidated

\* The heuristic's answer for the run, and whether the try block of the
\* model call failed.
Heuristic == suggestOverridesFromFailureContext(reviewSteps, errorContext)
Asked == reviewPc \in {"merge", "persist", "returned"} \/ reviewAnswer.kind # "none"
ModelFailed ==
    \/ reviewAnswer.kind \in {"error", "no JSON"}
    \/ \E k \in 1..Len(reviewAnswer.overrides) :
          \/ reviewAnswer.overrides[k].locator.kind \notin LocatorKinds
          \/ Mismatched(reviewAnswer.overrides[k])

\* C31: when the model call throws, its answer does not parse into the
\* override schema, or its overrides fail the validation against the
\* recording, the proposal is the heuristic's output if that has an entry,
\* and else the run ends with the original error; when the model answers
\* with a valid empty list, the heuristic's output replaces it if it has an
\* entry; a valid answer with entries is the proposal.
C31_FallbackOrRethrow ==
    reviewAnswer.kind # "none" =>
       IF ModelFailed
       THEN IF Len(Heuristic) > 0
            THEN proposed = Heuristic /\ reviewPc # "ask"
                 /\ (reviewPc = "threw" => reviewRaised = "Override validation failed")
            ELSE /\ reviewPc = "threw"
                 /\ reviewRaised =
                       CASE reviewAnswer.kind = "error" -> "model call failed"
                         [] reviewAnswer.kind = "no JSON" -> "No parseable JSON object found"
                         [] \E k \in 1..Len(reviewAnswer.overrides) :
                               reviewAnswer.overrides[k].locator.kind \notin LocatorKinds
                            -> "failed OverridesFileSchema validation"
                         [] OTHER -> "Override validation failed"
       ELSE proposed = IF Len(reviewAnswer.overrides) = 0 /\ Len(Heuristic) > 0
                       THEN Heuristic ELSE reviewAnswer.overrides

\* The model call failed and the heuristic's entry went to the merge.
C31_Witness ==
    /\ reviewPc = "returned"
    /\ reviewAnswer.kind = "error"
    /\ Len(proposed) = 1
    /\ proposed[1].locator = RoleLocator("button", "Login")

\* The keys of a list of entries, and the inputs of the merge of the run.
KeysIn(entries) == {<<entries[k].step, entries[k].action>> : k \in 1..Len(entries)}
EntriesIn(entries) == {entries[k] : k \in 1..Len(entries)}
Merged == reviewPc \in {"persist", "returned"} \/ Len(mergedFile) > 0

\* C32: the merge returns exactly one entry for each (step, action) key of
\* the existing or the proposed list; for a key of the proposed list it is
\* a proposed entry; every entry comes from one of the two lists; the
\* result is in ascending order of step, then of action; and merging the
\* same proposal into the result gives the result again.
C32_MergeByKey ==
    Merged =>
       /\ KeysIn(mergedFile) = KeysIn(existingOverrides.overrides) \cup KeysIn(proposed)
       /\ Cardinality(KeysIn(mergedFile)) = Len(mergedFile)
       /\ \A k \in 1..Len(mergedFile) :
             /\ <<mergedFile[k].step, mergedFile[k].action>> \in KeysIn(proposed)
                   => mergedFile[k] \in EntriesIn(proposed)
             /\ mergedFile[k] \in
                   EntriesIn(existingOverrides.overrides) \cup EntriesIn(proposed)
       /\ \A k \in 1..Len(mergedFile) - 1 :
             \/ mergedFile[k].step < mergedFile[k + 1].step
             \/ /\ mergedFile[k].step = mergedFile[k + 1].step
                /\ mergedFile[k].action = "click"
                /\ mergedFile[k + 1].action = "navigate"
       /\ mergeOverrideEntries(mergedFile, proposed) = mergedFile

\* An existing entry was replaced under its key by the proposed one, and an
\* existing entry of a later step stands behind it.
C32_Witness ==
    /\ reviewPc = "returned"
    /\ Len(existingOverrides.overrides) = 2
    /\ Len(mergedFile) = 2
    /\ mergedFile[1] = Override(0, "click", NewLocator)
    /\ mergedFile[2] = Override(1, "click", OldLocator)

\* The heuristic has answered, with an entry; the step the entry is for;
\* the mentions of the failure text; the names of the aria/ selectors of a
\* step, in lower case.
Suggested == reviewPc = "suggested"
SuggestedOne == Suggested /\ Len(proposed) = 1
SuggestedStep == reviewSteps[proposed[1].step + 1]
Mentions == errorContext.mentions
MentionIndices == 1..Len(Mentions)
AriaNamesOf(step) ==
    {LowerCase(step.sels[k].name) : k \in {j \in 1..Len(step.sels) : step.sels[j].aria}}
IsClickable(k) == Mentions[k].role \in {"button", "link", "menuitem", "tab", "option"}
NameMatches(k) == LowerCase(Mentions[k].name) \in AriaNamesOf(SuggestedStep)
IsMention(locator, k) ==
    locator = RoleLocator(Mentions[k].role, Mentions[k].name)
HasMarker == errorContext.marker.step # NoStep
LocatedStep ==
    IF HasMarker THEN proposed[1].step = errorContext.marker.step
    ELSE \A j \in 1..Len(reviewSteps) :
            LET best == StepScore(SuggestedStep, Mentions)
            IN /\ best > 0
               /\ StepScore(reviewSteps[j], Mentions) <= best
               /\ j < proposed[1].step + 1 => StepScore(reviewSteps[j], Mentions) < best

\* C33 as stated: the entry is for the step of the marker, or without a
\* marker for the step that scores best; its locator is a role locator of a
\* mention of the failure text, and of the first clickable mention named
\* like an aria/ selector of the step when there is one.
C33_AsStated ==
    SuggestedOne =>
       /\ LocatedStep
       /\ \E k \in MentionIndices : IsMention(proposed[1].locator, k)
       /\ \A k \in MentionIndices :
             (IsClickable(k) /\ NameMatches(k)
              /\ \A j \in 1..(k - 1) : ~(IsClickable(j) /\ NameMatches(j)))
                => IsMention(proposed[1].locator, k)

\* C33 (amended): the entry is for the step of the marker, or without a
\* marker for the step that scores best.  For a click, doubleClick or hover
\* step the locator is the role locator of the first clickable mention
\* named like an aria/ selector of the step, else of the first clickable
\* mention, else a role locator named after an aria/ selector of the step.
\* For a change step it is the role locator of the first form-role mention,
\* else a label locator named after an aria/ selector of the step.  For a
\* waitForElement step it is the role locator of the first mention.
C33_LocatesAndPrefers ==
    SuggestedOne =>
       /\ LocatedStep
       /\ LET locator == proposed[1].locator
              first(S) == CHOOSE k \in S : \A j \in S : k <= j
              matching == {k \in MentionIndices : IsClickable(k) /\ NameMatches(k)}
              clickable == {k \in MentionIndices : IsClickable(k)}
              forms == {k \in MentionIndices :
                          Mentions[k].role \in
                             {"textbox", "combobox", "spinbutton", "searchbox"}}
          IN CASE SuggestedStep.type \in {"click", "doubleClick", "hover"} ->
                     IF matching # {} THEN IsMention(locator, first(matching))
                     ELSE IF clickable # {} THEN IsMention(locator, first(clickable))
                     ELSE /\ locator.kind = "role"
                          /\ LowerCase(locator.name) \in AriaNamesOf(SuggestedStep)
               [] SuggestedStep.type = "change" ->
                     IF forms # {} THEN IsMention(locator, first(forms))
                     ELSE /\ locator.kind = "label"
                          /\ LowerCase(locator.text) \in AriaNamesOf(SuggestedStep)
               [] SuggestedStep.type = "waitForElement" -> IsMention(locator, 1)
               [] OTHER -> FALSE

\* Without a marker the second step scored best, and of two clickable
\* mentions the second, named like the step's aria/ selector, was taken.
C33_Witness ==
    /\ SuggestedOne
    /\ ~HasMarker
    /\ proposed[1].step = 1
    /\ Mentions = <<Mention("link", "Forgot Password"), Mention("button", "Login")>>
    /\ proposed[1].locator = RoleLocator("button", "Login")

\* C39: the heuristic returns no entry or exactly one; the step of that
\* entry is a step of the recording and its action is the type recorded for
\* that step, whatever type the marker names; so the validation against the
\* recording accepts what the heuristic returns.
C39_HeuristicOutputValid ==
    Suggested =>
       /\ Len(proposed) <= 1
       /\ \A k \in 1..Len(proposed) :
             /\ proposed[k].step \in 0..(Len(reviewSteps) - 1)
             /\ reviewSteps[proposed[k].step + 1].type # ""
             /\ proposed[k].action = reviewSteps[proposed[k].step + 1].type
       /\ ~validateOverridesAgainstRecording(proposed, reviewSteps)

\* The marker names a change, the step it points at is a click, and the
\* entry is a click.
C39_Witness ==
    /\ SuggestedOne
    /\ errorContext.marker = [step |-> 0, type |-> "change"]
    /\ proposed[1].action = "click"
    /\ Len(reviewSteps) = 2

\* The penalties of a generic CSS selector, counted from what the selector
\* holds.
Excess(n) == IF n > 3 THEN n - 3 ELSE 0
Penalty(raw) ==
    (IF raw.nth THEN 25 ELSE 0) + 10 * Excess(raw.combinators)
    + 5 * Excess(raw.classes) + (IF raw.generated THEN 20 ELSE 0)

\* C36: a generic CSS selector scores 60 less 25 for nth-child or
\* nth-of-type, 10 for each combinator beyond three, 5 for each class beyond
\* three and 20 for a generated token, and not less than 0, and is brittle
\* exactly when a penalty applies; a bare #id scores 70 and a data-testid,
\* data-test or data-cy attribute selector 85, neither brittle; every score
\* returned lies in 0..100.
C36_CssScoreFormula ==
    ScoreCalled =>
       /\ \A c \in Scores :
             /\ c.raw.form = "css" =>
                   /\ c.score = (IF Penalty(c.raw) >= 60 THEN 0 ELSE 60 - Penalty(c.raw))
                   /\ c.brittle <=> Penalty(c.raw) > 0
             /\ c.raw.form = "id" => c.score = 70 /\ ~c.brittle
             /\ c.raw.form = "testid" => c.score = 85 /\ ~c.brittle
             /\ c.score \in 0..100
       /\ LastCall.returned.score \in 0..100

\* A CSS selector whose penalties exceed 60 was scored 0.
C36_Witness ==
    /\ ScoreCalled
    /\ \E c \in Scores : c.raw.form = "css" /\ Penalty(c.raw) > 60 /\ c.score = 0

\* C37: every candidate that is not brittle scores at least 60 and every
\* brittle one at most 55, and selectBestSelector returns a brittle result
\* only when every non-empty alternative's first selector is scored brittle.
C37_BrittleOnlyWithoutStable ==
    ScoreCalled =>
       /\ \A c \in Scores : IF c.brittle THEN c.score <= 55 ELSE c.score >= 60
       /\ LastCall.returned.brittle => \A c \in Scores : c.brittle
       /\ (\E c \in Scores : ~c.brittle) => LastCall.returned \in Scores

\* A brittle alternative listed first lost to a stable one, and a call with
\* brittle alternatives only returned a brittle result.
C37_Witness ==
    /\ Len(scoreCalls) = 2
    /\ Len(scoreCalls[1].selectors) = 2
    /\ scoreCalls[1].selectors[1] # <<>> /\ scoreCalls[1].selectors[2] # <<>>
    /\ scoreCalls[1].selectors[1][1].form = "xpath"
    /\ scoreCalls[1].selectors[2][1].form = "css"
    /\ ~scoreCalls[1].returned.brittle
    /\ Len(sortedCandidates) = 2
    /\ \A c \in Scores : c.brittle
    /\ LastCall.returned.brittle

\* C34: a step without expectations returns before its budget is spent
\* only on a fail action: when it has returned, either the model issued
\* fail, or the result is the success built after the loop, with ticksUsed
\* = maxTicksPerStep, after exactly maxTicksPerStep model calls and without
\* any check of expectations inside the loop, whatever was executed.
C34_NoExpectationsSpendBudget ==
    (nExp = 0 /\ pc = "returned") =>
       /\ result.success <=> exit # "fail"
       /\ result.success =>
             /\ result.ticksUsed = maxTicksPerStep
             /\ tick = maxTicksPerStep
             /\ llmCalls = maxTicksPerStep
             /\ stepChecks = 0
             /\ result.actions = actions

\* A step without expectations succeeded after MaxTicksBound ticks, each of
\* which executed an action on the page.
C34_Witness ==
    /\ nExp = 0
    /\ pc = "returned"
    /\ result.success
    /\ maxTicksPerStep = MaxTicksBound
    /\ Len(actions) = MaxTicksBound
    /\ \A i \in 1..Len(actions) : actions[i].action.type \in MutatingTypes

\* C35: a failure returned for the exceeded tick budget carries the result
\* of at least one expectation that did not pass.
C35_TimeoutCarriesUnmet ==
    (pc = "returned" /\ exit = "exhausted" /\ ~result.success) =>
       \E i \in DOMAIN result.expectations : ~result.expectations[i].passed

\* C38: the steps of a test case are passed to executeStep one at a time,
\* in declared order and on the page of the runner; a step is started only
\* after every step before it returned a success; and after the first
\* failed step no step is started and the test ends as failed.
C38_SequentialUntilFirstFailure ==
    /\ \A k \in 1..Len(started) :
          /\ started[k].step = k - 1
          /\ started[k].page = "page"
          /\ \A j \in 1..(k - 1) : j <= Len(stepResults) /\ stepResults[j].success
    /\ Len(started) <= testSteps
    /\ harnessPc = "executing" => Len(started) = Len(stepResults) + 1
    /\ harnessPc \in {"loop", "attach", "assert"} => Len(started) = Len(stepResults)
    /\ Len(started) - Len(stepResults) \in {0, 1}
    /\ \A k \in 1..Len(stepResults) :
          ~stepResults[k].success =>
             /\ k = Len(stepResults)
             /\ k = Len(started)
             /\ harnessPc \in {"attach", "assert", "ended"}
             /\ harnessPc = "ended" => testStatus = "failed"
    /\ testStatus = "passed" =>
          /\ Len(stepResults) = testSteps
          /\ \A k \in 1..Len(stepResults) : stepResults[k].success

\* The second of three steps failed and the test ended without the third.
C38_Witness ==
    /\ testSteps = 3
    /\ harnessPc = "ended"
    /\ testStatus = "failed"
    /\ Len(started) = 2
    /\ stepResults[1].success
    /\ ~stepResults[2].success

\* C40: in every observation the accessibility-tree text is not longer than
\* ariaSnapshotMaxChars and the visible-text excerpt not longer than
\* shortTextMaxChars, whatever the page gave, an extraction error included,
\* and whatever the caps; previousActions is the last min(5, n) entries of
\* the action log of n entries, in order, and tickNumber the current tick.
C40_ObservationWithinCaps ==
    observation.kind = "observation" =>
       /\ observation.ariaSnapshot.len <= obsConfig.ariaSnapshotMaxChars
       /\ observation.shortText.len <= obsConfig.shortTextMaxChars
       /\ LET n == Len(obsLog)
              kept == IF n < 5 THEN n ELSE 5
          IN /\ Len(observation.previousActions) = kept
             /\ \A i \in 1..kept : observation.previousActions[i] = obsLog[n - kept + i]
       /\ observation.tickNumber = obsTick

====
